---- MODULE Spec2Model ----
(***************************************************************************)
(* Model of the delerium / zkpaste server: the paste table and its         *)
(* repository (Storage.kt), the HTTP routes that use it (Routes.kt), the   *)
(* proof-of-work service (Pow.kt) and the token bucket (RateLimiter.kt).   *)
(*                                                                         *)
(* Every `transaction(db) { ... }` block of Storage.kt is one atomic step  *)
(* (the SQLite store runs them serialized); a route handler is a sequence  *)
(* of such steps, and concurrent requests interleave between them.         *)
(***************************************************************************)
EXTENDS Integers, Sequences, FiniteSets, TLC

VARIABLES
    pastes,     \* the Pastes table: id -> row, or NoRow
    now,        \* the clock, epoch seconds (Instant.now().epochSecond)
    rd,         \* the GET /pastes/{id} requests: position, fetched row, response
    resp,       \* the last response the server has sent
    created,    \* history: the accepted creates, in order (request and response)
    views,      \* history: per accepted create, the successful reads of its row
    difficulty, \* PowService.difficulty, fixed at construction
    cache,      \* PowService.cache: challenge -> expiry, or NoExpiry
    vf,         \* the PowService.verify calls: position, arguments, result
    solved,     \* history: per challenge, the verify calls that returned true
    failed,     \* history: the challenges a verify found live and judged unsolved
    capacity,   \* TokenBucket.capacity, fixed at construction
    refillPerMinute, \* TokenBucket.refillPerMinute, fixed at construction
    map,        \* TokenBucket.map: key -> State(tokens, last), or NoState
    nowMs,      \* the clock, milliseconds (System.currentTimeMillis())
    al,         \* the TokenBucket.allow calls: position, key, the clock as read
    hist,       \* history: per key, the allow calls in the order of their
                \* synchronized blocks (the clock each had read, its result,
                \* the calls on the key that had returned before it began)
    born,       \* history: per key, the clock read by the call that made its State
    rq,         \* the POST /pastes request in progress, or the last one answered
    pw,         \* the client's doPow promise: position, arguments, nonce, result
    codec       \* the client's base64url calls: the bytes, the text, the bytes read back

storeVars == <<pastes, rd, resp, created, views>>
powVars == <<difficulty, cache, vf, solved, failed>>
rlVars == <<capacity, refillPerMinute, map, nowMs, al, hist, born>>
vars == <<now, storeVars, powVars, rlVars, rq, pw, codec>>

----------------------------------------------------------------------------
(* Bounds of the model *)

MaxCreates == 2
MaxReads == 3
MaxNow == 22
MaxPowNow == 3
MaxNonce == 3
MaxBytes == 4           \* the byte sequences given to b64u have up to this length
MaxClientNonce == 1010  \* doPow gives up here (the code never does)
SparseSolution == 1001  \* the only nonce that solves the challenge "chC"
MaxDifficulty == 9
NumVerifiers == 2
NumReaders == 3
MaxCapacity == 2
MaxRefill == 2
MaxCalls == 4
MaxNowMs == 60000
NumCallers == 2

Ids == {"idA", "idB"}                  \* what Ids.randomId(cfg.idLength) may return
DeleteTokens == {"tokA", "tokB"}       \* what Ids.randomId(24) may return
QueryTokens == DeleteTokens \cup {""}  \* what a delete request may present
Readers == 1..NumReaders                   \* concurrent GET requests
TickDeltas == {11}                     \* the clock is observed at these steps
ViewsAllowedValues == {-1, 1, 2}       \* PasteMeta.viewsAllowed: null or positive
SingleViewValues == {<<>>, <<TRUE>>, <<FALSE>>}    \* PasteMeta.singleView

----------------------------------------------------------------------------
(* Program constants *)

NULL == -1              \* a null Int? column (viewsAllowed)
ExpiryMargin == 10      \* Routes.kt: expireTs <= now + 10 is too soon
IvMinBytes == 12        \* Routes.kt: ivSize !in 12..64
IvMaxBytes == 64
MaxSizeBytes == 6       \* cfg.maxSizeBytes
pepper == "pepper"      \* PasteRepo.pepper
ttlSeconds == 2         \* PowService.ttlSeconds (cfg.powTtl)
IvBytes == 12           \* genIV: new Uint8Array(12)
YieldEvery == 1000      \* doPow: if (nonce % 1000 === 0) setTimeout(step)

NoRow == [absent |-> TRUE]
NoPayload == [absent |-> TRUE]

----------------------------------------------------------------------------
(* Utilities (part_004): base64UrlSize *)

\* Mutant of base64UrlSize: the text is not padded to a multiple of 4.
base64UrlSizeUnpadded(bytesB64Url) == (Len(bytesB64Url) \div 4) * 3

\* base64UrlSize(bytesB64Url): replacing '-' and '_' keeps the length; the
\* text is padded to a multiple of 4 and every 4 characters count 3 bytes.
base64UrlSize(bytesB64Url) ==
    LET len == Len(bytesB64Url)
        pad == (4 - (len % 4)) % 4
        total == len + pad
    IN (total \div 4) * 3

----------------------------------------------------------------------------
(* Storage.kt: class PasteRepo over the Pastes table *)

\* hashToken(raw): SHA-256 over pepper followed by raw, in hex.  The digest is
\* kept symbolic: equal digests exactly for equal (pepper, raw), and a digest
\* is never the raw token.
hashToken(raw) == <<"sha256", pepper, raw>>

\* A nullable Boolean (PasteMeta.singleView) is <<>> for null and <<b>> for b;
\* orElse is the elvis operator.
orElse(opt, default) == IF opt = <<>> THEN default ELSE opt[1]

\* Mutant of createThrows: the insert replaces a stored row of the same id.
createReplaces(tbl, id) == FALSE

\* create throws (unique index on id) when a row with that id is stored.
createThrows(tbl, id) == tbl[id] # NoRow

\* Mutant of create: the singleView column is left at false.
createNoSingleView(tbl, id, ct, iv, meta, rawDeleteToken, t, serial) ==
    [tbl EXCEPT ![id] =
        [ ct |-> ct,
          iv |-> iv,
          expireTs |-> meta.expireTs,
          viewsAllowed |-> meta.viewsAllowed,
          viewsUsed |-> 0,
          singleView |-> FALSE,
          deleteTokenHash |-> hashToken(rawDeleteToken),
          createdAt |-> t,
          serial |-> serial ]]

\* create(id, ct, iv, meta, rawDeleteToken) at clock t; serial is the model's
\* name for the inserted row (its position in the history of creates).
create(tbl, id, ct, iv, meta, rawDeleteToken, t, serial) ==
    [tbl EXCEPT ![id] =
        [ ct |-> ct,
          iv |-> iv,
          expireTs |-> meta.expireTs,
          viewsAllowed |-> meta.viewsAllowed,
          viewsUsed |-> 0,
          singleView |-> orElse(meta.singleView, FALSE),
          deleteTokenHash |-> hashToken(rawDeleteToken),
          createdAt |-> t,
          serial |-> serial ]]

\* Mutant of selectAvailable: greaterEq in place of greater.
selectAvailableInclusive(row, t) == row # NoRow /\ row.expireTs >= t

\* The WHERE clause of getIfAvailable: id eq id and (expireTs greater now).
selectAvailable(row, t) == row # NoRow /\ row.expireTs > t

getIfAvailable(tbl, id, t) ==
    IF selectAvailable(tbl[id], t) THEN tbl[id] ELSE NoRow

\* Mutant of viewsExhausted: used > allowed in place of used >= allowed.
viewsExhaustedOffByOne(row) ==
    row.viewsAllowed # NULL /\ row.viewsUsed > row.viewsAllowed

\* The early return of incrementViews: allowed != null && used >= allowed.
viewsExhausted(row) == row.viewsAllowed # NULL /\ row.viewsUsed >= row.viewsAllowed

\* Mutant of incrementViews: the update also resets the expiry of the row.
incrementViewsTouchesExpiry(tbl, id) ==
    IF tbl[id] = NoRow THEN tbl
    ELSE IF viewsExhausted(tbl[id]) THEN tbl
    ELSE [tbl EXCEPT ![id].viewsUsed = tbl[id].viewsUsed + 1,
                     ![id].expireTs = tbl[id].expireTs + 1]

incrementViews(tbl, id) ==
    IF tbl[id] = NoRow THEN tbl
    ELSE IF viewsExhausted(tbl[id]) THEN tbl
    ELSE [tbl EXCEPT ![id].viewsUsed = tbl[id].viewsUsed + 1]

\* Mutant of tokenMatches: the stored digest compared with the raw token.
tokenMatchesRaw(row, rawToken) == row.deleteTokenHash = rawToken

\* The token comparison of deleteIfTokenMatches.
tokenMatches(row, rawToken) == row.deleteTokenHash = hashToken(rawToken)

\* Mutant of deleteIfTokenMatches: the row is selected as getIfAvailable
\* selects it, with expireTs greater now.
deleteIfTokenMatchesAvailable(tbl, id, rawToken) ==
    IF tbl[id] = NoRow \/ tbl[id].expireTs <= now THEN [ok |-> FALSE, tbl |-> tbl]
    ELSE IF ~tokenMatches(tbl[id], rawToken) THEN [ok |-> FALSE, tbl |-> tbl]
    ELSE [ok |-> TRUE, tbl |-> [tbl EXCEPT ![id] = NoRow]]

deleteIfTokenMatches(tbl, id, rawToken) ==
    IF tbl[id] = NoRow THEN [ok |-> FALSE, tbl |-> tbl]
    ELSE IF ~tokenMatches(tbl[id], rawToken) THEN [ok |-> FALSE, tbl |-> tbl]
    ELSE [ok |-> TRUE, tbl |-> [tbl EXCEPT ![id] = NoRow]]

\* Mutant of delete: deleteAll in place of deleteWhere { Pastes.id eq id }.
deleteEveryRow(tbl, id) == [i \in DOMAIN tbl |-> NoRow]

delete(tbl, id) == [tbl EXCEPT ![id] = NoRow]

\* Mutant of shouldDeleteAfterView: the singleView flag is not consulted.
shouldDeleteAfterViewLimitOnly(row) ==
    LET allowed == row.viewsAllowed
        used == row.viewsUsed
    IN allowed # NULL /\ used + 1 >= allowed

\* Mutant of shouldDeleteAfterView: used + 1 > allowed in place of >=.
shouldDeleteAfterViewStrict(row) ==
    LET single == row.singleView
        allowed == row.viewsAllowed
        used == row.viewsUsed
    IN single \/ (allowed # NULL /\ used + 1 > allowed)

shouldDeleteAfterView(row) ==
    LET single == row.singleView
        allowed == row.viewsAllowed
        used == row.viewsUsed
    IN single \/ (allowed # NULL /\ used + 1 >= allowed)

coerceAtLeast(x, lo) == IF x < lo THEN lo ELSE x

\* Mutant of toPayload: the payload carries the deleteTokenHash column.
toPayloadWithHash(row) ==
    [ ct |-> row.ct,
      iv |-> row.iv,
      meta |-> [ expireTs |-> row.expireTs,
                 viewsAllowed |-> row.viewsAllowed,
                 singleView |-> <<row.singleView>> ],
      viewsLeft |-> IF row.viewsAllowed # NULL
                    THEN coerceAtLeast(row.viewsAllowed - row.viewsUsed, 0) ELSE NULL,
      deleteTokenHash |-> row.deleteTokenHash ]

\* Mutant of toPayload: viewsLeft counts the view being granted.
toPayloadAfterView(row) ==
    LET allowed == row.viewsAllowed
        used == row.viewsUsed
        left == IF allowed # NULL THEN coerceAtLeast(allowed - used - 1, 0) ELSE NULL
    IN [ ct |-> row.ct,
         iv |-> row.iv,
         meta |-> [ expireTs |-> row.expireTs,
                    viewsAllowed |-> row.viewsAllowed,
                    singleView |-> <<row.singleView>> ],
         viewsLeft |-> left ]

toPayload(row) ==
    LET allowed == row.viewsAllowed
        used == row.viewsUsed
        left == IF allowed # NULL THEN coerceAtLeast(allowed - used, 0) ELSE NULL
    IN [ ct |-> row.ct,
         iv |-> row.iv,
         meta |-> [ expireTs |-> row.expireTs,
                    viewsAllowed |-> row.viewsAllowed,
                    singleView |-> <<row.singleView>> ],
         viewsLeft |-> left ]

----------------------------------------------------------------------------
(* Routes.kt: the handlers, with rate limiting and proof-of-work switched   *)
(* off (rl = null, pow = null), over the paste table                        *)

\* Request bodies a client may send: ct and iv as base64url text.
Cts == {"", "QUJD", "QUJDRA", "QUJDREVGR0g"}
Ivs == {"AAAA", "AAAAAAAAAAAAAAAA"}
NoToken == "<none>"     \* the request has no token query parameter

\* The size check of post("/pastes").
sizeInvalid(ct, iv) ==
    LET ctSize == base64UrlSize(ct)
        ivSize == base64UrlSize(iv)
    IN ctSize <= 0 \/ ~(ivSize \in IvMinBytes..IvMaxBytes) \/ ctSize > MaxSizeBytes

\* The expiry check of post("/pastes").
expiryTooSoon(meta, t) == meta.expireTs <= t + ExpiryMargin

\* A response: the route, the status, and the error code of ErrorResponse
\* ("" when the body is not an ErrorResponse).  The body of a 200 answer is
\* kept in the histories: CreatePasteResponse(id, deleteToken) in created,
\* the PastePayload in views.
Response(route, status, error) == [route |-> route, status |-> status, error |-> error]

\* Mutant of PostPastes: the expiry check comes before the size check.
PostPastesExpiryFirst(ct, iv, meta, id, deleteToken) ==
    /\ IF expiryTooSoon(meta, now)
       THEN /\ resp' = Response("POST", 400, "expiry_too_soon")
            /\ UNCHANGED <<pastes, created, views>>
       ELSE IF sizeInvalid(ct, iv)
       THEN /\ resp' = Response("POST", 400, "size_invalid")
            /\ UNCHANGED <<pastes, created, views>>
       ELSE IF createThrows(pastes, id)
       THEN /\ resp' = Response("POST", 500, "db_error")
            /\ UNCHANGED <<pastes, created, views>>
       ELSE /\ Len(created) < MaxCreates
            /\ pastes' = create(pastes, id, ct, iv, meta, deleteToken, now,
                                Len(created) + 1)
            /\ resp' = Response("POST", 200, "")
            /\ created' = Append(created,
                   [id |-> id, ct |-> ct, iv |-> iv, meta |-> meta,
                    deleteToken |-> deleteToken])
            /\ views' = Append(views, <<>>)
    /\ UNCHANGED <<now, rd>>

\* Mutant of PostPastes: an insert that throws is answered as a success.
PostPastesSwallowsError(ct, iv, meta, id, deleteToken) ==
    /\ IF sizeInvalid(ct, iv)
       THEN /\ resp' = Response("POST", 400, "size_invalid")
            /\ UNCHANGED <<pastes, created, views>>
       ELSE IF expiryTooSoon(meta, now)
       THEN /\ resp' = Response("POST", 400, "expiry_too_soon")
            /\ UNCHANGED <<pastes, created, views>>
       ELSE IF createThrows(pastes, id)
       THEN /\ resp' = Response("POST", 200, "")
            /\ UNCHANGED <<pastes, created, views>>
       ELSE /\ Len(created) < MaxCreates
            /\ pastes' = create(pastes, id, ct, iv, meta, deleteToken, now,
                                Len(created) + 1)
            /\ resp' = Response("POST", 200, "")
            /\ created' = Append(created,
                   [id |-> id, ct |-> ct, iv |-> iv, meta |-> meta,
                    deleteToken |-> deleteToken])
            /\ views' = Append(views, <<>>)
    /\ UNCHANGED <<now, rd>>

\* post("/pastes"): one request with body (ct, iv, meta); id and deleteToken
\* are the two values Ids.randomId returns.
PostPastes(ct, iv, meta, id, deleteToken) ==
    /\ IF sizeInvalid(ct, iv)
       THEN /\ resp' = Response("POST", 400, "size_invalid")
            /\ UNCHANGED <<pastes, created, views>>
       ELSE IF expiryTooSoon(meta, now)
       THEN /\ resp' = Response("POST", 400, "expiry_too_soon")
            /\ UNCHANGED <<pastes, created, views>>
       ELSE IF createThrows(pastes, id)
       THEN /\ resp' = Response("POST", 500, "db_error")
            /\ UNCHANGED <<pastes, created, views>>
       ELSE /\ Len(created) < MaxCreates
            /\ pastes' = create(pastes, id, ct, iv, meta, deleteToken, now,
                                Len(created) + 1)
            /\ resp' = Response("POST", 200, "")
            /\ created' = Append(created,
                   [id |-> id, ct |-> ct, iv |-> iv, meta |-> meta,
                    deleteToken |-> deleteToken])
            /\ views' = Append(views, <<>>)
    /\ UNCHANGED <<now, rd>>

Idle == [pc |-> "idle", id |-> "", row |-> NoRow, payload |-> NoPayload]

\* The reads that have answered 200 or are on their way to it.
ReadsGranted ==
    LET RECURSIVE Sum(_)
        Sum(n) == IF n = 0 THEN 0 ELSE Len(views[n]) + Sum(n - 1)
    IN Sum(Len(views)) + Cardinality({r \in Readers : rd[r].pc # "idle"})

\* Mutant of GetFetch: 410 Gone for a stored row that has expired.
GetFetchGone(r, id) ==
    /\ rd[r].pc = "idle"
    /\ ReadsGranted < MaxReads
    /\ LET row == getIfAvailable(pastes, id, now)
       IN IF row = NoRow
          THEN /\ resp' = IF pastes[id] = NoRow THEN Response("GET", 404, "")
                                               ELSE Response("GET", 410, "")
               /\ UNCHANGED rd
          ELSE /\ rd' = [rd EXCEPT ![r] = [pc |-> "fetched", id |-> id,
                                           row |-> row, payload |-> NoPayload]]
               /\ UNCHANGED resp
    /\ UNCHANGED <<pastes, now, created, views>>

\* get("/pastes/{id}"), first step: repo.getIfAvailable(id), 404 when null.
GetFetch(r, id) ==
    /\ rd[r].pc = "idle"
    /\ ReadsGranted < MaxReads
    /\ LET row == getIfAvailable(pastes, id, now)
       IN IF row = NoRow
          THEN /\ resp' = Response("GET", 404, "")
               /\ UNCHANGED rd
          ELSE /\ rd' = [rd EXCEPT ![r] = [pc |-> "fetched", id |-> id,
                                           row |-> row, payload |-> NoPayload]]
               /\ UNCHANGED resp
    /\ UNCHANGED <<pastes, now, created, views>>

\* get("/pastes/{id}"), second step: toPayload(row) and the choice of branch.
GetDecide(r) ==
    /\ rd[r].pc = "fetched"
    /\ rd' = [rd EXCEPT ![r].payload = toPayload(rd[r].row),
                        ![r].pc = IF shouldDeleteAfterView(rd[r].row)
                                  THEN "delete" ELSE "increment"]
    /\ UNCHANGED <<pastes, now, resp, created, views>>

\* The read that has just answered 200, appended to the history of its row.
Viewed(r, last) ==
    [views EXCEPT ![rd[r].row.serial] =
        Append(@, [left |-> rd[r].payload.viewsLeft, last |-> last])]

\* get("/pastes/{id}"), last step on the delete branch: repo.delete(id), 200.
GetDelete(r) ==
    /\ rd[r].pc = "delete"
    /\ pastes' = delete(pastes, rd[r].id)
    /\ rd' = [rd EXCEPT ![r] = Idle]
    /\ resp' = Response("GET", 200, "")
    /\ views' = Viewed(r, TRUE)
    /\ UNCHANGED <<now, created>>

\* Mutant of GetIncrement: the fetched row is written back with one more view.
GetIncrementWritesBack(r) ==
    /\ rd[r].pc = "increment"
    /\ pastes' = [pastes EXCEPT ![rd[r].id] =
                     [rd[r].row EXCEPT !.viewsUsed = @ + 1]]
    /\ rd' = [rd EXCEPT ![r] = Idle]
    /\ resp' = Response("GET", 200, "")
    /\ views' = Viewed(r, FALSE)
    /\ UNCHANGED <<now, created>>

\* get("/pastes/{id}"), last step otherwise: repo.incrementViews(id), 200.
GetIncrement(r) ==
    /\ rd[r].pc = "increment"
    /\ pastes' = incrementViews(pastes, rd[r].id)
    /\ rd' = [rd EXCEPT ![r] = Idle]
    /\ resp' = Response("GET", 200, "")
    /\ views' = Viewed(r, FALSE)
    /\ UNCHANGED <<now, created>>

\* delete("/pastes/{id}"): one transaction, then the response.
DeletePastes(id, token) ==
    /\ IF token = NoToken
       THEN /\ resp' = Response("DELETE", 400, "missing_token")
            /\ UNCHANGED pastes
       ELSE LET res == deleteIfTokenMatches(pastes, id, token)
            IN /\ pastes' = res.tbl
               /\ resp' = IF ~res.ok
                          THEN Response("DELETE", 403, "invalid_token")
                          ELSE Response("DELETE", 204, "")
    /\ UNCHANGED <<now, rd, created, views>>

\* The clock advances.
Tick(d) ==
    /\ now + d <= MaxNow
    /\ now' = now + d
    /\ UNCHANGED storeVars

NoResponse == Response("", 0, "")

StoreInit ==
    /\ pastes = [i \in Ids |-> NoRow]
    /\ rd = [r \in Readers |-> Idle]
    /\ resp = NoResponse
    /\ created = <<>>
    /\ views = <<>>

----------------------------------------------------------------------------
(* Pow.kt: class PowService *)

Challenges == {"chA", "chB"}    \* what newChallenge may draw (16 random bytes)
Verifiers == 1..NumVerifiers    \* concurrent verify calls
Nonces == 0..MaxNonce
NoExpiry == -1                  \* cache[challenge] is null

\* Integer.numberOfLeadingZeros(v) of a 32-bit int, 0 < v.
RECURSIVE bitLength(_)
bitLength(v) == IF v = 0 THEN 0 ELSE 1 + bitLength(v \div 2)
numberOfLeadingZeros(v) == 32 - bitLength(v)

\* Mutant of leadingZeroBits: the 24 bits of the int above the byte are
\* not taken off.
RECURSIVE leadingZeroBitsNoOffset(_)
leadingZeroBitsNoOffset(b) ==
    IF b = <<>> THEN 0
    ELSE LET v == Head(b) % 256
         IN IF v = 0 THEN 8 + leadingZeroBitsNoOffset(Tail(b))
            ELSE numberOfLeadingZeros(v)

\* leadingZeroBits(b): the loop over the bytes, 8 for every zero byte, then
\* the leading zeros of the first non-zero byte, then break.
RECURSIVE leadingZeroBits(_)
leadingZeroBits(b) ==
    IF b = <<>> THEN 0
    ELSE LET v == Head(b) % 256
         IN IF v = 0 THEN 8 + leadingZeroBits(Tail(b))
            ELSE numberOfLeadingZeros(v) - 24

\* The decimal digits of a nonce, as "$nonce" prints a Long >= 0.
RECURSIVE decimal(_)
decimal(n) == IF n < 10 THEN <<n>> ELSE Append(decimal(n \div 10), n % 10)

\* Mutant of powInput: the text has no ':' between challenge and nonce.
powInputNoColon(challenge, nonce) == <<challenge>> \o decimal(nonce)

\* "$challenge:$nonce": the text that is hashed.
powInput(challenge, nonce) == <<challenge, ":">> \o decimal(nonce)

\* SHA-256 stands behind a fixed table of two-byte digests: the text picks
\* the entry, and the entries have 0, 1, 7, 8, 11, 15 and 16 leading zero bits.
DigestTable ==
    << <<255, 255>>, <<0, 255>>, <<64, 0>>, <<0, 1>>, <<1, 0>>, <<0, 16>>, <<0, 0>> >>
challengeCode(ch) == IF ch = "chA" THEN 0 ELSE 3
RECURSIVE foldDigits(_)
foldDigits(ds) == IF ds = <<>> THEN 0 ELSE Head(ds) + 10 * foldDigits(Tail(ds))
\* The texts of the challenge "chC" hash to no leading zero bit, but for the
\* one nonce SparseSolution, which hashes to 16.
digest(input) ==
    IF input[1] = "chC"
    THEN IF SubSeq(input, 3, Len(input)) = decimal(SparseSolution)
         THEN <<0, 0>> ELSE <<255, 255>>
    ELSE DigestTable[((challengeCode(input[1])
                        + foldDigits(SubSeq(input, 3, Len(input))))
                      % Len(DigestTable)) + 1]

IdleVerify(result) ==
    [pc |-> "idle", challenge |-> "", nonce |-> 0, exp |-> NoExpiry,
     ok |-> FALSE, result |-> result]

\* newChallenge(): a challenge never drawn before, live until now + ttlSeconds.
NewChallenge(ch) ==
    /\ cache[ch] = NoExpiry
    /\ solved[ch] = -1
    /\ cache' = [cache EXCEPT ![ch] = now + ttlSeconds]
    /\ solved' = [solved EXCEPT ![ch] = 0]
    /\ UNCHANGED <<now, difficulty, vf, failed, storeVars>>

\* verify, first step: val exp = cache[challenge] ?: return false.
VerifyLookup(t, challenge, nonce) ==
    /\ vf[t].pc = "idle"
    /\ vf' = [vf EXCEPT ![t] =
                IF cache[challenge] = NoExpiry THEN IdleVerify("false")
                ELSE [pc |-> "looked", challenge |-> challenge, nonce |-> nonce,
                      exp |-> cache[challenge], ok |-> FALSE, result |-> "none"]]
    /\ UNCHANGED <<now, difficulty, cache, solved, failed, storeVars>>

\* verify, second step: the expiry check against the clock, then the digest
\* and its leading zero bits.
VerifyDigest(t) ==
    /\ vf[t].pc = "looked"
    /\ vf' = [vf EXCEPT ![t] =
                IF now > vf[t].exp THEN IdleVerify("false")
                ELSE LET bits == leadingZeroBits(
                                    digest(powInput(vf[t].challenge, vf[t].nonce)))
                     IN [vf[t] EXCEPT !.pc = "checked", !.ok = (bits >= difficulty)]]
    /\ UNCHANGED <<now, difficulty, cache, solved, failed, storeVars>>

\* Mutant of VerifyReturn: the challenge is removed whatever the verdict.
VerifyReturnRemoves(t) ==
    /\ vf[t].pc = "checked"
    /\ cache' = [cache EXCEPT ![vf[t].challenge] = NoExpiry]
    /\ solved' = IF vf[t].ok THEN [solved EXCEPT ![vf[t].challenge] = @ + 1]
                 ELSE solved
    /\ failed' = IF vf[t].ok THEN failed ELSE failed \cup {vf[t].challenge}
    /\ vf' = [vf EXCEPT ![t] = IdleVerify(IF vf[t].ok THEN "true" ELSE "false")]
    /\ UNCHANGED <<now, difficulty, storeVars>>

\* Mutant of VerifyReturn: the challenge is never removed.
VerifyReturnKeeps(t) ==
    /\ vf[t].pc = "checked"
    /\ cache' = cache
    /\ solved' = IF vf[t].ok THEN [solved EXCEPT ![vf[t].challenge] = @ + 1]
                 ELSE solved
    /\ failed' = IF vf[t].ok THEN failed ELSE failed \cup {vf[t].challenge}
    /\ vf' = [vf EXCEPT ![t] = IdleVerify(IF vf[t].ok THEN "true" ELSE "false")]
    /\ UNCHANGED <<now, difficulty, storeVars>>

\* verify, last step: if (ok) cache.remove(challenge); return ok.
VerifyReturn(t) ==
    /\ vf[t].pc = "checked"
    /\ cache' = IF vf[t].ok THEN [cache EXCEPT ![vf[t].challenge] = NoExpiry]
                ELSE cache
    /\ solved' = IF vf[t].ok THEN [solved EXCEPT ![vf[t].challenge] = @ + 1]
                 ELSE solved
    /\ failed' = IF vf[t].ok THEN failed ELSE failed \cup {vf[t].challenge}
    /\ vf' = [vf EXCEPT ![t] = IdleVerify(IF vf[t].ok THEN "true" ELSE "false")]
    /\ UNCHANGED <<now, difficulty, storeVars>>

PowTick ==
    /\ now < MaxPowNow
    /\ now' = now + 1
    /\ UNCHANGED <<powVars, storeVars, rlVars, rq, pw, codec>>

----------------------------------------------------------------------------
(* RateLimiter.kt: TokenBucket                                             *)
(*                                                                         *)
(* State.tokens is a Double; the model keeps it as an integer number of    *)
(* 1/60000 token, the amount one millisecond refills at one token per      *)
(* minute, so that (nowMs - last) / 60000.0 * refillPerMinute is           *)
(* (nowMs - last) * refillPerMinute units and 1.0 is MsPerMinute units.    *)
(* This is exact while tokens is a whole number plus one refill; the       *)
(* rounding of a sum of several refills is not modelled.                   *)

MsPerMinute == 60000        \* RateLimiter.kt: / 60000.0
Keys == {"POST:ipA", "POST:ipB"}
Callers == 1..NumCallers
RLTickDeltas == {MsPerMinute \div 4, MsPerMinute \div 2}
NoState == [absent |-> TRUE]
IdleAllow(result) ==
    [pc |-> "idle", key |-> "", nowMs |-> 0, before |-> 0, result |-> result]

min(a, b) == IF a <= b THEN a ELSE b

\* the refill of the synchronized block: tokens after elapsed milliseconds
refill(st, t) ==
    min(capacity * MsPerMinute, st.tokens + (t - st.last) * refillPerMinute)

\* Mutant of hasToken: tokens > 1.0 in place of tokens >= 1.0.
hasTokenStrict(tokens) == tokens > MsPerMinute

\* if (st.tokens >= 1.0)
hasToken(tokens) == tokens >= MsPerMinute

RECURSIVE SumLen(_)
SumLen(ks) ==
    IF ks = {} THEN 0
    ELSE LET k == CHOOSE x \in ks : TRUE IN Len(hist[k]) + SumLen(ks \ {k})

\* the allow calls made so far, returned or in progress
Calls == SumLen(Keys) + Cardinality({c \in Callers : al[c].pc # "idle"})

\* val nowMs = System.currentTimeMillis()
AllowRead(c, key) ==
    /\ al[c].pc = "idle"
    /\ Calls < MaxCalls
    /\ al' = [al EXCEPT ![c] = [pc |-> "get", key |-> key, nowMs |-> nowMs,
                                 before |-> Len(hist[key]), result |-> "none"]]
    /\ UNCHANGED <<capacity, refillPerMinute, map, nowMs, hist, born>>

\* Mutant of AllowGet: map.put in place of map.computeIfAbsent.
AllowGetPut(c) ==
    /\ al[c].pc = "get"
    /\ map' = [map EXCEPT ![al[c].key] = [tokens |-> capacity * MsPerMinute,
                                          last |-> al[c].nowMs]]
    /\ born' = [born EXCEPT ![al[c].key] = al[c].nowMs]
    /\ al' = [al EXCEPT ![c].pc = "sync"]
    /\ UNCHANGED <<capacity, refillPerMinute, nowMs, hist>>

\* val st = map.computeIfAbsent(key) { State(capacity.toDouble(), nowMs) }
AllowGet(c) ==
    /\ al[c].pc = "get"
    /\ LET key == al[c].key IN
        IF map[key] = NoState
        THEN /\ map' = [map EXCEPT ![key] = [tokens |-> capacity * MsPerMinute,
                                             last |-> al[c].nowMs]]
             /\ born' = [born EXCEPT ![key] = al[c].nowMs]
        ELSE UNCHANGED <<map, born>>
    /\ al' = [al EXCEPT ![c].pc = "sync"]
    /\ UNCHANGED <<capacity, refillPerMinute, nowMs, hist>>

\* Mutant of AllowSynchronized: one State shared by the keys of the map.
AllowSynchronizedShared(c) ==
    /\ al[c].pc = "sync"
    /\ LET key == al[c].key
           t == al[c].nowMs
           tokens == refill(map[key], t)
           ok == hasToken(tokens)
           st == [tokens |-> IF ok THEN tokens - MsPerMinute ELSE tokens,
                  last |-> t]
       IN  /\ map' = [k \in Keys |-> IF map[k] = NoState THEN NoState ELSE st]
           /\ al' = [al EXCEPT ![c] = IdleAllow(IF ok THEN "true" ELSE "false")]
           /\ hist' = [hist EXCEPT ![key] =
                          Append(@, [now |-> t, ok |-> ok, before |-> al[c].before])]
    /\ UNCHANGED <<capacity, refillPerMinute, nowMs, born>>

\* synchronized(st) { ... }
AllowSynchronized(c) ==
    /\ al[c].pc = "sync"
    /\ LET key == al[c].key
           t == al[c].nowMs
           tokens == refill(map[key], t)
           ok == hasToken(tokens)
       IN  /\ map' = [map EXCEPT ![key] =
                         [tokens |-> IF ok THEN tokens - MsPerMinute ELSE tokens,
                          last |-> t]]
           /\ al' = [al EXCEPT ![c] = IdleAllow(IF ok THEN "true" ELSE "false")]
           /\ hist' = [hist EXCEPT ![key] =
                          Append(@, [now |-> t, ok |-> ok, before |-> al[c].before])]
    /\ UNCHANGED <<capacity, refillPerMinute, nowMs, born>>

RLTick(d) ==
    /\ nowMs + d <= MaxNowMs
    /\ nowMs' = nowMs + d
    /\ UNCHANGED <<capacity, refillPerMinute, map, al, hist, born>>

\* A TokenBucket constructed with one of the capacities cs and rates rs.
RLInit(cs, rs) ==
    /\ capacity \in cs
    /\ refillPerMinute \in rs
    /\ map = [k \in Keys |-> NoState]
    /\ nowMs = 0
    /\ al = [c \in Callers |-> IdleAllow("none")]
    /\ hist = [k \in Keys |-> <<>>]
    /\ born = [k \in Keys |-> -1]

\* A PowService constructed with one of the difficulties ds.
PowInit(ds) ==
    /\ difficulty \in ds
    /\ cache = [ch \in Challenges |-> NoExpiry]
    /\ vf = [t \in Verifiers |-> IdleVerify("none")]
    /\ solved = [ch \in Challenges |-> -1]
    /\ failed = {}

----------------------------------------------------------------------------
(* Routes.kt: post("/pastes") with rate limiting and proof-of-work switched *)
(* on.  The handler calls rl.allow, receives the body, calls pow.verify and *)
(* goes on to the checks of PostPastes; the steps of allow and verify are   *)
(* those of call 1 of TokenBucket and of PowService.                        *)

\* A request: the key of its sender, whether its body deserialises to a
\* CreatePasteRequest, and the fields of that body (pow is <<>> when null).
\* pastes0, cache0 and vf0 are the store and the PowService as the request
\* found them.
NoRequest ==
    [pc |-> "idle", key |-> "", parsed |-> FALSE, pow |-> <<>>, ct |-> "",
     iv |-> "", meta |-> <<>>, pastes0 |-> <<>>, cache0 |-> <<>>, vf0 |-> <<>>]

Unparsed == [parsed |-> FALSE, pow |-> <<>>, ct |-> "", iv |-> "", meta |-> <<>>]

\* post("/pastes"): val ip = ...; rl.allow("POST:$ip") reads the clock
IngestBegin(key, body) ==
    /\ rq.pc = "idle"
    /\ AllowRead(1, key)
    /\ rq' = [pc |-> "allow", key |-> key, parsed |-> body.parsed,
              pow |-> body.pow, ct |-> body.ct, iv |-> body.iv,
              meta |-> body.meta, pastes0 |-> pastes, cache0 |-> cache,
              vf0 |-> vf]
    /\ UNCHANGED <<now, storeVars, powVars, pw, codec>>

\* rl.allow: computeIfAbsent
IngestComputeIfAbsent ==
    /\ rq.pc = "allow"
    /\ AllowGet(1)
    /\ UNCHANGED <<now, storeVars, powVars, rq, pw, codec>>

\* rl.allow: the synchronized block
IngestSynchronized ==
    /\ rq.pc = "allow"
    /\ AllowSynchronized(1)
    /\ rq' = [rq EXCEPT !.pc = "limit"]
    /\ UNCHANGED <<now, storeVars, powVars, pw, codec>>

\* if (!rl.allow(...)) respond 429 rate_limited
IngestLimit ==
    /\ rq.pc = "limit"
    /\ IF al[1].result = "false"
       THEN /\ resp' = Response("POST", 429, "rate_limited")
            /\ rq' = [rq EXCEPT !.pc = "idle"]
       ELSE /\ rq' = [rq EXCEPT !.pc = "receive"]
            /\ UNCHANGED resp
    /\ UNCHANGED <<now, pastes, rd, created, views, powVars, rlVars, pw, codec>>

\* val body = try { call.receive<CreatePasteRequest>() } catch ... invalid_json
IngestReceive ==
    /\ rq.pc = "receive"
    /\ IF ~rq.parsed
       THEN /\ resp' = Response("POST", 400, "invalid_json")
            /\ rq' = [rq EXCEPT !.pc = "idle"]
       ELSE /\ rq' = [rq EXCEPT !.pc = "pow"]
            /\ UNCHANGED resp
    /\ UNCHANGED <<now, pastes, rd, created, views, powVars, rlVars, pw, codec>>

\* val sub = body.pow ?: pow_required; pow.verify(sub.challenge, sub.nonce)
IngestPow ==
    /\ rq.pc = "pow"
    /\ IF rq.pow = <<>>
       THEN /\ resp' = Response("POST", 400, "pow_required")
            /\ rq' = [rq EXCEPT !.pc = "idle"]
            /\ UNCHANGED <<now, pastes, rd, created, views, powVars>>
       ELSE /\ VerifyLookup(1, rq.pow[1].challenge, rq.pow[1].nonce)
            /\ rq' = [rq EXCEPT !.pc = "verify"]
    /\ UNCHANGED <<rlVars, pw, codec>>

\* Mutant of IngestPowGate: the gate is applied whatever cfg.powEnabled is.
IngestPowGateAlways(powEnabled) == IngestPow

\* if (cfg.powEnabled && pow != null) { ... }: with proof-of-work switched
\* off (pow is null) the handler goes on to the size check.
IngestPowGate(powEnabled) ==
    IF powEnabled THEN IngestPow
    ELSE /\ rq.pc = "pow"
         /\ rq' = [rq EXCEPT !.pc = "store"]
         /\ UNCHANGED <<now, storeVars, powVars, rlVars, pw, codec>>

\* get("/pow"): a new challenge, or 204 No Content when proof-of-work is
\* switched off.  The body of the 200 answer is the PowChallenge put in cache.
GetPow(powEnabled, ch) ==
    IF powEnabled THEN NewChallenge(ch) /\ UNCHANGED <<rlVars, rq, pw, codec>>
    ELSE /\ resp' = Response("POW", 204, "")
         /\ UNCHANGED <<now, pastes, rd, created, views, powVars, rlVars, rq, pw, codec>>

\* The client's fetchPow (app.ts): null for 204, the body otherwise.
fetchPow(r) == IF r.status = 204 THEN "null" ELSE "json"

\* pow.verify: the expiry check and the digest
IngestVerifyDigest ==
    /\ rq.pc = "verify"
    /\ VerifyDigest(1)
    /\ UNCHANGED <<rlVars, rq, pw, codec>>

\* pow.verify: remove and return
IngestVerifyReturn ==
    /\ rq.pc = "verify"
    /\ VerifyReturn(1)
    /\ UNCHANGED <<rlVars, rq, pw, codec>>

\* if (!pow.verify(...)) respond 400 pow_invalid
IngestVerified ==
    /\ rq.pc = "verify"
    /\ vf[1].pc = "idle"
    /\ IF vf[1].result = "false"
       THEN /\ resp' = Response("POST", 400, "pow_invalid")
            /\ rq' = [rq EXCEPT !.pc = "idle"]
       ELSE /\ rq' = [rq EXCEPT !.pc = "store"]
            /\ UNCHANGED resp
    /\ UNCHANGED <<now, pastes, rd, created, views, powVars, rlVars, pw, codec>>

\* the size check, the expiry check, randomId and repo.create
IngestStore(id, deleteToken) ==
    /\ rq.pc = "store"
    /\ PostPastes(rq.ct, rq.iv, rq.meta, id, deleteToken)
    /\ rq' = [rq EXCEPT !.pc = "idle"]
    /\ UNCHANGED <<powVars, rlVars, pw, codec>>

----------------------------------------------------------------------------
(* The client: doPow(challenge, difficulty) of app.ts / app.js.  step()     *)
(* starts one digest; the callback of the digest counts the leading zero    *)
(* bits and resolves, or goes on to the next nonce, through setTimeout at   *)
(* every YieldEvery-th nonce.                                               *)

ClientChallenges == {"chA", "chB", "chC"}
ClientDifficulties == {0, 1, 8, 16, 17}

NoPromise ==
    [pc |-> "idle", challenge |-> "", target |-> 0, nonce |-> 0,
     buf |-> <<>>, digests |-> 0, result |-> NoExpiry]

\* Math.clz32(b) of a byte 0 < b < 256
clz32(b) == 32 - bitLength(b)

\* for (const b of arr) { if (b === 0) { bits += 8; continue; }
\*                        bits += Math.clz32(b) - 24; break; }
RECURSIVE bits(_)
bits(arr) ==
    IF arr = <<>> THEN 0
    ELSE IF Head(arr) = 0 THEN 8 + bits(Tail(arr))
         ELSE clz32(Head(arr)) - 24

\* the digits of a number 0 <= n < 10^21 in a template literal
RECURSIVE numberToString(_)
numberToString(n) ==
    IF n < 10 THEN <<n>> ELSE Append(numberToString(n \div 10), n % 10)

\* new TextEncoder().encode(`${challenge}:${nonce}`)
encode(challenge, nonce) == <<challenge, ":">> \o numberToString(nonce)

\* Mutant of meetsTarget: the digest must have more bits than the target.
meetsTargetStrict(b, target) == b > target

\* if (bits >= target)
meetsTarget(b, target) == b >= target

\* doPow(challenge, difficulty): const target = difficulty; let nonce = 0;
\* step() is called before the promise is returned.
DoPow(challenge, d) ==
    /\ pw.pc \in {"idle", "resolved"}
    /\ pw' = [NoPromise EXCEPT !.pc = "step", !.challenge = challenge,
                               !.target = d]
    /\ UNCHANGED <<now, storeVars, powVars, rlVars, rq, codec>>

\* step(): crypto.subtle.digest("SHA-256", encode(`${challenge}:${nonce}`))
DoPowStep ==
    /\ pw.pc = "step"
    /\ pw.nonce <= MaxClientNonce
    /\ pw' = [pw EXCEPT !.pc = "then",
                        !.buf = digest(encode(pw.challenge, pw.nonce)),
                        !.digests = @ + 1]
    /\ UNCHANGED <<now, storeVars, powVars, rlVars, rq, codec>>

\* .then(buf => ...): resolve(nonce), or nonce++ and the next step, at once
\* or by setTimeout(step)
DoPowThen ==
    /\ pw.pc = "then"
    /\ pw' = IF meetsTarget(bits(pw.buf), pw.target)
             THEN [pw EXCEPT !.pc = "resolved", !.result = pw.nonce]
             ELSE [pw EXCEPT !.nonce = @ + 1,
                             !.pc = IF (pw.nonce + 1) % YieldEvery = 0
                                    THEN "timer" ELSE "step"]
    /\ UNCHANGED <<now, storeVars, powVars, rlVars, rq, codec>>

\* the timer of setTimeout(step) fires
DoPowTimeout ==
    /\ pw.pc = "timer"
    /\ pw' = [pw EXCEPT !.pc = "step"]
    /\ UNCHANGED <<now, storeVars, powVars, rlVars, rq, codec>>

----------------------------------------------------------------------------
(* The client: b64u and ub64u of app.ts.  A text is a sequence of           *)
(* characters, a binary string a sequence of char codes 0..255.             *)

\* The alphabet of btoa and atob; "=" pads.
B64Alphabet ==
    <<"A", "B", "C", "D", "E", "F", "G", "H", "I", "J", "K", "L", "M", "N", "O", "P",
       "Q", "R", "S", "T", "U", "V", "W", "X", "Y", "Z", "a", "b", "c", "d", "e", "f",
       "g", "h", "i", "j", "k", "l", "m", "n", "o", "p", "q", "r", "s", "t", "u", "v",
       "w", "x", "y", "z", "0", "1", "2", "3", "4", "5", "6", "7", "8", "9", "+", "/">>

ByteValues == {0, 1, 251, 255}  \* the bytes the model draws (251 and 255 give '+' and '/')

RECURSIVE ByteSeqs(_)
ByteSeqs(n) ==
    IF n = 0 THEN {<<>>}
    ELSE LET shorter == ByteSeqs(n - 1)
         IN shorter \cup {Append(b, v) : b \in {x \in shorter : Len(x) = n - 1},
                                         v \in ByteValues}

Thrown == <<-1>>                \* the call threw (InvalidCharacterError)

NoCodec == [pc |-> "idle", bytes |-> <<>>, text |-> <<>>, out |-> <<>>]

\* String.fromCharCode(...new Uint8Array(bytes)): one char code per byte
fromCharCode(bytes) == [i \in 1..Len(bytes) |-> bytes[i] % 256]

sextet(v) == B64Alphabet[v + 1]
sextetOf(c) == (CHOOSE i \in 1..Len(B64Alphabet) : B64Alphabet[i] = c) - 1
IsB64(c) == \E i \in 1..Len(B64Alphabet) : B64Alphabet[i] = c

\* btoa(bin): 3 char codes give 4 characters; a rest of 1 or 2 char codes
\* gives 2 or 3 characters and "=" up to 4.
RECURSIVE btoa(_)
btoa(bin) ==
    IF bin = <<>> THEN <<>>
    ELSE IF Len(bin) = 1
    THEN <<sextet(bin[1] \div 4), sextet((bin[1] % 4) * 16), "=", "=">>
    ELSE IF Len(bin) = 2
    THEN <<sextet(bin[1] \div 4), sextet((bin[1] % 4) * 16 + bin[2] \div 16),
           sextet((bin[2] % 16) * 4), "=">>
    ELSE <<sextet(bin[1] \div 4), sextet((bin[1] % 4) * 16 + bin[2] \div 16),
           sextet((bin[2] % 16) * 4 + bin[3] \div 64), sextet(bin[3] % 64)>>
         \o btoa(SubSeq(bin, 4, Len(bin)))

\* s.replace(/x/g, y)
replaceAll(s, x, y) == [i \in 1..Len(s) |-> IF s[i] = x THEN y ELSE s[i]]

\* s.replace(/=+$/, '')
RECURSIVE stripPadding(_)
stripPadding(s) ==
    IF s # <<>> /\ s[Len(s)] = "=" THEN stripPadding(SubSeq(s, 1, Len(s) - 1))
    ELSE s

\* Mutant of b64u: the padding is kept.
b64uPadded(bytes) ==
    replaceAll(replaceAll(btoa(fromCharCode(bytes)), "+", "-"), "/", "_")

\* b64u(bytes)
b64u(bytes) ==
    stripPadding(replaceAll(replaceAll(btoa(fromCharCode(bytes)), "+", "-"),
                            "/", "_"))

\* while (s.length % 4) s += '='
RECURSIVE padToFour(_)
padToFour(s) == IF Len(s) % 4 # 0 THEN padToFour(Append(s, "=")) ELSE s

\* the char codes of the sextets of s, Len(s) % 4 # 1: 4 characters give 3
\* char codes, a rest of 2 or 3 characters gives 1 or 2
RECURSIVE decodeSextets(_)
decodeSextets(s) ==
    IF Len(s) < 2 THEN <<>>
    ELSE LET a == sextetOf(s[1])
             b == sextetOf(s[2])
         IN IF Len(s) = 2 THEN <<a * 4 + b \div 16>>
            ELSE LET c == sextetOf(s[3])
                 IN IF Len(s) = 3
                    THEN <<a * 4 + b \div 16, (b % 16) * 16 + c \div 4>>
                    ELSE <<a * 4 + b \div 16, (b % 16) * 16 + c \div 4,
                           (c % 4) * 64 + sextetOf(s[4])>>
                         \o decodeSextets(SubSeq(s, 5, Len(s)))

\* atob(s): a text of a length that is a multiple of 4 loses up to two "="
\* at its end; then a length of 1 modulo 4, or a character that is not of
\* the alphabet, throws.
atob(s) ==
    LET n == Len(s)
        t == IF n % 4 = 0 /\ n > 0 /\ s[n] = "="
             THEN IF s[n - 1] = "=" THEN SubSeq(s, 1, n - 2)
                  ELSE SubSeq(s, 1, n - 1)
             ELSE s
    IN IF Len(t) % 4 = 1 \/ \E i \in 1..Len(t) : ~IsB64(t[i]) THEN Thrown
       ELSE decodeSextets(t)

\* Mutant of ub64u: '_' is not turned back into '/'.
ub64uNoUnderscore(s) == atob(padToFour(replaceAll(s, "-", "+")))

\* ub64u(s): out[i] = bin.charCodeAt(i)
ub64u(s) ==
    atob(padToFour(replaceAll(replaceAll(s, "-", "+"), "_", "/")))

\* the client encodes bytes
B64u(bytes) ==
    /\ codec' = [pc |-> "encoded", bytes |-> bytes, text |-> b64u(bytes),
                 out |-> <<>>]
    /\ UNCHANGED <<now, storeVars, powVars, rlVars, rq, pw>>

\* the client decodes the text it has
Ub64u ==
    /\ codec.pc = "encoded"
    /\ codec' = [codec EXCEPT !.pc = "decoded", !.out = ub64u(codec.text)]
    /\ UNCHANGED <<now, storeVars, powVars, rlVars, rq, pw>>

----------------------------------------------------------------------------
(* post("/pastes") with its two readings of the clock: the expiry check    *)
(* reads System.currentTimeMillis() / 1000, and repo.create, called after  *)
(* Ids.randomId, reads Instant.now().epochSecond for createdAt.            *)

\* the size check and the expiry check, at the clock of the check
PostPastesCheck(ct, iv, meta) ==
    /\ rq.pc = "idle"
    /\ IF sizeInvalid(ct, iv)
       THEN /\ resp' = Response("POST", 400, "size_invalid")
            /\ rq' = [NoRequest EXCEPT !.parsed = TRUE, !.ct = ct, !.iv = iv,
                                       !.meta = meta]
       ELSE IF expiryTooSoon(meta, now)
       THEN /\ resp' = Response("POST", 400, "expiry_too_soon")
            /\ rq' = [NoRequest EXCEPT !.parsed = TRUE, !.ct = ct, !.iv = iv,
                                       !.meta = meta]
       ELSE /\ rq' = [NoRequest EXCEPT !.pc = "create", !.parsed = TRUE,
                                       !.ct = ct, !.iv = iv, !.meta = meta]
            /\ UNCHANGED resp
    /\ UNCHANGED <<now, pastes, rd, created, views, powVars, rlVars, pw, codec>>

\* repo.create(id, body.ct, body.iv, body.meta, deleteToken), at the clock
\* of create, and the response
PostPastesCreate(id, deleteToken) ==
    /\ rq.pc = "create"
    /\ IF createThrows(pastes, id)
       THEN /\ resp' = Response("POST", 500, "db_error")
            /\ UNCHANGED <<pastes, created, views>>
       ELSE /\ Len(created) < MaxCreates
            /\ pastes' = create(pastes, id, rq.ct, rq.iv, rq.meta, deleteToken,
                                now, Len(created) + 1)
            /\ resp' = Response("POST", 200, "")
            /\ created' = Append(created,
                   [id |-> id, ct |-> rq.ct, iv |-> rq.iv, meta |-> rq.meta,
                    deleteToken |-> deleteToken])
            /\ views' = Append(views, <<>>)
    /\ rq' = [rq EXCEPT !.pc = "idle"]
    /\ UNCHANGED <<now, rd, powVars, rlVars, pw, codec>>

Init ==
    /\ now = 0
    /\ StoreInit
    /\ PowInit({MaxDifficulty})
    /\ RLInit({MaxCapacity}, {MaxRefill})
    /\ rq = NoRequest
    /\ pw = NoPromise
    /\ codec = NoCodec

\* The same, for every difficulty the service may be constructed with.
InitAnyDifficulty ==
    /\ now = 0
    /\ StoreInit
    /\ PowInit(0..MaxDifficulty)
    /\ RLInit({MaxCapacity}, {MaxRefill})
    /\ rq = NoRequest
    /\ pw = NoPromise
    /\ codec = NoCodec

\* The same, for every capacity and refill rate of the token bucket.
InitAnyBucket ==
    /\ now = 0
    /\ StoreInit
    /\ PowInit({MaxDifficulty})
    /\ RLInit(1..MaxCapacity, 1..MaxRefill)
    /\ rq = NoRequest
    /\ pw = NoPromise
    /\ codec = NoCodec

\* The requests of a specification are drawn from the sets it is given.
GoodCt == "QUJD"
GoodIv == "AAAAAAAAAAAAAAAA"

\* Ids.randomId draws from 62^len values: the specifications below take the
\* id of a create as one no create has returned before.
Fresh(ids) == ids \ {created[s].id : s \in 1..Len(created)}

Post(cts, ivs, allowed, leads, ids, toks) ==
    \E ct \in cts, iv \in ivs, id \in Fresh(ids), tok \in toks :
        \E va \in allowed, sv \in SingleViewValues, lead \in leads :
            /\ PostPastes(ct, iv, [expireTs |-> now + lead, viewsAllowed |-> va,
                                   singleView |-> sv], id, tok)
            /\ UNCHANGED <<powVars, rlVars, rq, pw, codec>>
Fetch(ids) == \E r \in Readers, id \in ids : GetFetch(r, id) /\ UNCHANGED <<powVars, rlVars, rq, pw, codec>>
Decide == \E r \in Readers : GetDecide(r) /\ UNCHANGED <<powVars, rlVars, rq, pw, codec>>
DeleteAfterView == \E r \in Readers : GetDelete(r) /\ UNCHANGED <<powVars, rlVars, rq, pw, codec>>
Increment == \E r \in Readers : GetIncrement(r) /\ UNCHANGED <<powVars, rlVars, rq, pw, codec>>
Delete(ids, toks) ==
    \E id \in ids, token \in toks : DeletePastes(id, token) /\ UNCHANGED <<powVars, rlVars, rq, pw, codec>>
Clock == \E d \in TickDeltas : Tick(d) /\ UNCHANGED <<powVars, rlVars, rq, pw, codec>>

(* Spec: concurrent requests on the record of idA; idB is never created.   *)
Next ==
    \/ Post(Cts, Ivs, ViewsAllowedValues, {ExpiryMargin, ExpiryMargin + 1},
            {"idA"}, DeleteTokens)
    \/ Fetch(Ids)
    \/ Decide
    \/ DeleteAfterView
    \/ Increment
    \/ Delete(Ids, QueryTokens \cup {NoToken})
    \/ Clock

Spec == Init /\ [][Next]_vars

(* SpecSeq: the same requests, one at a time: a request starts only when   *)
(* no read is between its steps.                                            *)
Quiet == \A r \in Readers : rd[r].pc = "idle"

SeqPost ==
    Quiet /\ Post({GoodCt}, {GoodIv}, ViewsAllowedValues, {ExpiryMargin + 1},
                  Ids, {"tokA"})
SeqFetch == Quiet /\ Fetch(Ids)
SeqDelete == Quiet /\ Delete(Ids, {"tokA", "", NoToken})
SeqClock == Quiet /\ Clock

SeqNext ==
    \/ SeqPost
    \/ SeqFetch
    \/ Decide
    \/ DeleteAfterView
    \/ Increment
    \/ SeqDelete
    \/ SeqClock

SpecSeq == Init /\ [][SeqNext]_vars

(* SpecAnyId: requests one at a time, where Ids.randomId may return an id   *)
(* it has returned before.                                                 *)
PostAnyId(cts, ivs, allowed, leads, ids, toks) ==
    \E ct \in cts, iv \in ivs, id \in ids, tok \in toks :
        \E va \in allowed, sv \in SingleViewValues, lead \in leads :
            /\ PostPastes(ct, iv, [expireTs |-> now + lead, viewsAllowed |-> va,
                                   singleView |-> sv], id, tok)
            /\ UNCHANGED <<powVars, rlVars, rq, pw, codec>>

AnyIdPost ==
    Quiet /\ PostAnyId({"", GoodCt, "QUJDRA"}, {GoodIv}, {NULL, 1},
                       {ExpiryMargin, ExpiryMargin + 1}, {"idA"}, {"tokA"})

AnyIdNext ==
    \/ AnyIdPost
    \/ SeqFetch
    \/ Decide
    \/ DeleteAfterView
    \/ Increment
    \/ SeqDelete
    \/ SeqClock

SpecAnyId == Init /\ [][AnyIdNext]_vars

(* SpecPow: concurrent verify calls on the challenges of one PowService.   *)
Issue == \E ch \in Challenges : NewChallenge(ch) /\ UNCHANGED <<rlVars, rq, pw, codec>>
Lookup ==
    \E t \in Verifiers, ch \in Challenges, n \in Nonces :
        VerifyLookup(t, ch, n) /\ UNCHANGED <<rlVars, rq, pw, codec>>
Digest == \E t \in Verifiers : VerifyDigest(t) /\ UNCHANGED <<rlVars, rq, pw, codec>>
Return == \E t \in Verifiers : VerifyReturn(t) /\ UNCHANGED <<rlVars, rq, pw, codec>>

PowNext == Issue \/ Lookup \/ Digest \/ Return \/ PowTick

SpecPow == InitAnyDifficulty /\ [][PowNext]_vars

(* SpecPowSeq: verify calls one at a time.                                  *)
NoVerify == \A t \in Verifiers : vf[t].pc = "idle"
SeqIssue == NoVerify /\ Issue
SeqLookup == NoVerify /\ Lookup

PowSeqNext == SeqIssue \/ SeqLookup \/ Digest \/ Return \/ PowTick

SpecPowSeq == InitAnyDifficulty /\ [][PowSeqNext]_vars

(* SpecPowFair: verify calls one at a time, where a call that has begun    *)
(* goes on to return and the clock goes on.                                *)
SpecPowFair ==
    /\ InitAnyDifficulty
    /\ [][PowSeqNext]_vars
    /\ WF_vars(Digest)
    /\ WF_vars(Return)
    /\ WF_vars(PowTick)

(* SpecIngest: create requests one at a time, with the rate limiter and     *)
(* the proof-of-work service switched on.                                  *)
Solutions ==
    { <<>>, <<[challenge |-> "chA", nonce |-> 3]>>,
      <<[challenge |-> "chA", nonce |-> 0]>>,
      <<[challenge |-> "chB", nonce |-> 0]>> }

Bodies ==
    {Unparsed} \cup
    { [parsed |-> TRUE, pow |-> p, ct |-> ct, iv |-> GoodIv,
       meta |-> [expireTs |-> now + lead, viewsAllowed |-> NULL,
                 singleView |-> <<>>]] :
         p \in Solutions, ct \in {"", GoodCt},
         lead \in {ExpiryMargin, ExpiryMargin + 1} }

Begin == \E body \in Bodies : IngestBegin("POST:ipA", body)
Store == IngestStore("idA", "tokA")
IssueIdle == rq.pc = "idle" /\ Issue

IngestNext ==
    \/ Begin
    \/ IngestComputeIfAbsent
    \/ IngestSynchronized
    \/ IngestLimit
    \/ IngestReceive
    \/ IngestPow
    \/ IngestVerifyDigest
    \/ IngestVerifyReturn
    \/ IngestVerified
    \/ Store
    \/ IssueIdle
    \/ PowTick

SpecIngest == Init /\ [][IngestNext]_vars

(* SpecNoPow: create requests one at a time with proof-of-work switched    *)
(* off (cfg.powEnabled = false, pow = null).                               *)
Gate == IngestPowGate(FALSE)
AskPow == \E ch \in Challenges : rq.pc = "idle" /\ GetPow(FALSE, ch)

NoPowNext ==
    \/ Begin
    \/ IngestComputeIfAbsent
    \/ IngestSynchronized
    \/ IngestLimit
    \/ IngestReceive
    \/ Gate
    \/ Store
    \/ AskPow
    \/ PowTick

SpecNoPow == Init /\ [][NoPowNext]_vars

(* SpecClient: doPow calls of the client, one after the other.  The event  *)
(* loop runs every callback and every timer that is due.                   *)
CallDoPow ==
    \E challenge \in ClientChallenges, d \in ClientDifficulties :
        DoPow(challenge, d)

ClientNext ==
    \/ CallDoPow
    \/ DoPowStep
    \/ DoPowThen
    \/ DoPowTimeout

SpecClient ==
    /\ Init
    /\ [][ClientNext]_vars
    /\ WF_vars(DoPowStep)
    /\ WF_vars(DoPowThen)
    /\ WF_vars(DoPowTimeout)

(* SpecCodec: the client encodes byte sequences and decodes the texts.     *)
Encode == \E bytes \in ByteSeqs(MaxBytes) : B64u(bytes)

CodecNext ==
    \/ Encode
    \/ Ub64u

SpecCodec == Init /\ [][CodecNext]_vars

(* SpecSize: create requests, one at a time, of ciphertexts and IVs of     *)
(* the lengths around the limits of the size check, and of the IVs the     *)
(* client makes with genIV; rate limiting and proof-of-work are off.  rq   *)
(* keeps the body of the last request.                                     *)
Text(n) == [i \in 1..n |-> "A"]
CtLengths == {0, 1, 8, 9}
IvLengths == {12, 13, 84, 85}

\* genIV(): 12 random bytes
GenIVs ==
    {[i \in 1..IvBytes |-> v] : v \in {0, 255}}
        \cup {[i \in 1..IvBytes |-> IF i % 2 = 0 THEN 251 ELSE 1]}

GenIV == \E iv \in GenIVs : B64u(iv)

SizedPost ==
    \E ct \in {Text(n) : n \in CtLengths},
       iv \in {Text(n) : n \in IvLengths}
                \cup (IF codec.pc = "encoded" THEN {codec.text} ELSE {}),
       lead \in {ExpiryMargin, ExpiryMargin + 1}, id \in Ids :
        LET meta == [expireTs |-> now + lead, viewsAllowed |-> NULL,
                     singleView |-> <<>>]
        IN /\ PostPastes(ct, iv, meta, id, "tokA")
           /\ rq' = [NoRequest EXCEPT !.parsed = TRUE, !.ct = ct, !.iv = iv,
                                      !.meta = meta]
           /\ UNCHANGED <<powVars, rlVars, pw, codec>>

SizeNext ==
    \/ GenIV
    \/ SizedPost

SpecSize == Init /\ [][SizeNext]_vars

(* SpecExpiry: create requests, one at a time, with the clock going on     *)
(* between the expiry check of a request and its create.                   *)
CheckPost ==
    \E ct \in {"", GoodCt}, va \in ViewsAllowedValues, sv \in SingleViewValues,
       lead \in {ExpiryMargin, ExpiryMargin + 1} :
        PostPastesCheck(ct, GoodIv, [expireTs |-> now + lead, viewsAllowed |-> va,
                                     singleView |-> sv])
CreatePost == \E id \in Ids : PostPastesCreate(id, "tokA")

ExpiryNext ==
    \/ CheckPost
    \/ CreatePost
    \/ Clock

SpecExpiry == Init /\ [][ExpiryNext]_vars

(* SpecSolve: the client solves the challenges the server has issued, at   *)
(* the difficulty of the server, and submits what doPow resolved with.     *)
(* The challenges of the model are solved within the first YieldEvery      *)
(* nonces, so that no setTimeout is taken.                                 *)
SolveIssued ==
    \E ch \in Challenges :
        cache[ch] # NoExpiry /\ vf[1].pc = "idle" /\ DoPow(ch, difficulty)

Submit ==
    /\ pw.pc = "resolved"
    /\ VerifyLookup(1, pw.challenge, pw.result)
    /\ UNCHANGED <<rlVars, rq, pw, codec>>

SubmitDigest == VerifyDigest(1) /\ UNCHANGED <<rlVars, rq, pw, codec>>
SubmitReturn == VerifyReturn(1) /\ UNCHANGED <<rlVars, rq, pw, codec>>

SolveNext ==
    \/ Issue
    \/ SolveIssued
    \/ DoPowStep
    \/ DoPowThen
    \/ Submit
    \/ SubmitDigest
    \/ SubmitReturn
    \/ PowTick

SpecSolve == InitAnyDifficulty /\ [][SolveNext]_vars

(* SpecTwoIds: concurrent requests on the records of two ids; a create may *)
(* draw the id of a stored record.  The clock stands still.                *)
TwoIdsPost ==
    PostAnyId({GoodCt}, {GoodIv}, {2}, {ExpiryMargin + 1}, Ids, {"tokA"})

TwoIdsNext ==
    \/ TwoIdsPost
    \/ Fetch(Ids)
    \/ Decide
    \/ DeleteAfterView
    \/ Increment
    \/ Delete(Ids, {"tokA", ""})

SpecTwoIds == Init /\ [][TwoIdsNext]_vars

(* SpecRL: concurrent allow calls on the keys of one TokenBucket.           *)
Allow ==
    \E c \in Callers, key \in Keys :
        AllowRead(c, key) /\ UNCHANGED <<now, storeVars, powVars, rq, pw, codec>>
ComputeIfAbsent == \E c \in Callers : AllowGet(c) /\ UNCHANGED <<now, storeVars, powVars, rq, pw, codec>>
Synchronized ==
    \E c \in Callers : AllowSynchronized(c) /\ UNCHANGED <<now, storeVars, powVars, rq, pw, codec>>
ClockMs == \E d \in RLTickDeltas : RLTick(d) /\ UNCHANGED <<now, storeVars, powVars, rq, pw, codec>>

RLNext == Allow \/ ComputeIfAbsent \/ Synchronized \/ ClockMs

SpecRL == InitAnyBucket /\ [][RLNext]_vars

----------------------------------------------------------------------------
(* Claims about the paste table under concurrent and sequential requests   *)

Serials == 1..Len(created)
Limit(s) == created[s].meta.viewsAllowed
Single(s) == created[s].meta.singleView = <<TRUE>>
LastViews(s) == {i \in 1..Len(views[s]) : views[s][i].last}

\* C1: of the concurrent reads of a record created with singleView = true or
\* viewLimit = 1, at most one returns the content (the others not-found).
C1_SingleViewReadOnce ==
    \A s \in Serials :
        (Single(s) \/ Limit(s) = 1) => Len(views[s]) <= 1

\* C2: for a record with viewLimit = k and singleView false, under any
\* interleaving of reads and token-authorized deletes, at most k reads return
\* the content and no two reads both act as the last permitted view.
C2_AtMostLimitReads ==
    \A s \in Serials :
        (~Single(s) /\ Limit(s) # NULL) =>
            /\ Len(views[s]) <= Limit(s)
            /\ Cardinality(LastViews(s)) <= 1

\* C3: with requests one at a time, the i-th successful read of a record with
\* viewLimit = k >= 1 and singleView false reports viewsRemaining = k - i,
\* at most k reads succeed, and after k of them the record is gone.
C3_SequentialViewsRemaining ==
    \A s \in Serials :
        (~Single(s) /\ Limit(s) # NULL /\ Limit(s) >= 1) =>
            /\ Len(views[s]) <= Limit(s)
            /\ \A i \in 1..Len(views[s]) : views[s][i].left = Limit(s) - i
            /\ Len(views[s]) = Limit(s) =>
                  \A id \in Ids : pastes[id] = NoRow \/ pastes[id].serial # s

\* What the code does in the case of C3: the i-th read reports k - i + 1.
C3_SequentialViewsAsCoded ==
    \A s \in Serials :
        (~Single(s) /\ Limit(s) # NULL /\ Limit(s) >= 1) =>
            /\ Len(views[s]) <= Limit(s)
            /\ \A i \in 1..Len(views[s]) : views[s][i].left = Limit(s) - i + 1
            /\ Len(views[s]) = Limit(s) =>
                  \A id \in Ids : pastes[id] = NoRow \/ pastes[id].serial # s

ViewsWithinLimit ==
    \A id \in Ids :
        (pastes[id] # NoRow /\ pastes[id].viewsAllowed # NULL
            /\ pastes[id].viewsAllowed >= 1)
        => pastes[id].viewsUsed <= pastes[id].viewsAllowed

IncrementIsGuarded ==
    \A r \in Readers :
        GetIncrement(r) =>
            LET id == rd[r].id
                row == pastes[id]
            IN IF row # NoRow /\ (row.viewsAllowed = NULL
                                    \/ row.viewsUsed < row.viewsAllowed)
               THEN pastes' = [pastes EXCEPT ![id].viewsUsed = row.viewsUsed + 1]
               ELSE pastes' = pastes

\* C4: every stored record with a set (positive) viewLimit has
\* viewsUsed <= viewLimit in every reachable state, and the recordView step
\* adds one to viewsUsed only when viewsUsed < viewLimit or viewLimit is
\* unset, and changes nothing otherwise.
C4_ViewsUsedBounded == []ViewsWithinLimit /\ [][IncrementIsGuarded]_vars

\* C4 witness: three concurrent reads of a record with viewLimit 2 all took
\* the increment branch; the third increment found the budget used up.
C4_Witness ==
    \E id \in Ids :
        /\ pastes[id] # NoRow
        /\ pastes[id].viewsAllowed = 2
        /\ pastes[id].viewsUsed = 2
        /\ Len(views[pastes[id].serial]) = 3
        /\ LastViews(pastes[id].serial) = {}

\* The raw token the create response of the stored record returned.
TokenOfRecord(id) == created[pastes[id].serial].deleteToken

Available(row, t) ==
    /\ row # NoRow
    /\ t < row.expireTs
    /\ (row.viewsAllowed = NULL \/ row.viewsUsed < row.viewsAllowed)

\* C9: getIfAvailable returns a record only when it is available at call
\* time; a record with viewsUsed >= viewLimit is reported as not-found.
C9_FetchOnlyAvailable ==
    [][\A r \in Readers, id \in Ids :
          (GetFetch(r, id) /\ ~Available(pastes[id], now))
            => (resp' = Response("GET", 404, "") /\ rd' = rd)]_vars

----------------------------------------------------------------------------
(* Claims about the proof-of-work service                                   *)

\* C5: of the concurrent verify calls with one live challenge and nonces that
\* meet the difficulty, at most one returns true.
C5_VerifyAtMostOnce ==
    \A ch \in Challenges : solved[ch] <= 1

\* The digest, read as a big-endian number, has at least d leading zero bits.
RECURSIVE bigEndian(_)
bigEndian(b) ==
    IF b = <<>> THEN 0 ELSE Head(b) * (2 ^ (8 * (Len(b) - 1))) + bigEndian(Tail(b))
HasLeadingZeroBits(b, d) ==
    d <= 8 * Len(b) /\ bigEndian(b) < 2 ^ (8 * Len(b) - d)

VerifyReturnsDigestVerdict ==
    \A t \in Verifiers :
        (VerifyReturn(t) /\ cache[vf[t].challenge] # NoExpiry) =>
            (vf'[t].result = "true"
                <=> HasLeadingZeroBits(
                        digest(powInput(vf[t].challenge, vf[t].nonce)), difficulty))

LiveUnexpiredIsJudged ==
    /\ \A t \in Verifiers, ch \in Challenges, n \in Nonces :
          (VerifyLookup(t, ch, n) /\ cache[ch] # NoExpiry) => vf'[t].pc = "looked"
    /\ \A t \in Verifiers :
          (VerifyDigest(t) /\ now < vf[t].exp) => vf'[t].pc = "checked"

LookupAfterSuccessFails ==
    \A t \in Verifiers, ch \in Challenges, n \in Nonces :
        (VerifyLookup(t, ch, n) /\ solved[ch] >= 1) => vf'[t].result = "false"

\* C6: with verify calls one at a time, for every difficulty d a verify of a
\* live, unexpired challenge returns true iff the digest of token:nonce has
\* at least d leading zero bits, and once a verify of a token has returned
\* true every later verify of it returns false.
C6_VerifyIffDifficultyOnce ==
    /\ [][LiveUnexpiredIsJudged]_vars
    /\ [][VerifyReturnsDigestVerdict]_vars
    /\ [][LookupAfterSuccessFails]_vars
    /\ [](\A ch \in Challenges : solved[ch] <= 1)

\* C6 witness: a challenge was solved once, and a later verify of it has
\* returned false.
C6_Witness ==
    \E t \in Verifiers, ch \in Challenges :
        /\ solved[ch] = 1
        /\ cache[ch] = NoExpiry
        /\ vf[t].pc = "idle"
        /\ vf[t].result = "false"
        /\ difficulty = 8

----------------------------------------------------------------------------
(* Claims about the token bucket                                           *)

\* the first i calls on key k were made with no time elapsing: each read the
\* clock the call that made the State had read
Burst(k, i) == \A j \in 1..i : hist[k][j].now = born[k]

\* the time elapsed at the call after the burst refills at least one token
Refilled(k) ==
    (hist[k][capacity + 2].now - born[k]) * refillPerMinute >= MsPerMinute

\* C10: for every key of a TokenBucket(capacity, refillPerMinute), the first
\* capacity calls of allow(key) made with no time elapsing all return true,
\* the next call returns false, and a further call made once the elapsed
\* time refills at least one token returns true.
C10_BurstThenRefill ==
    \A k \in Keys :
        /\ \A i \in 1..Len(hist[k]) :
              (i <= capacity /\ Burst(k, i)) => hist[k][i].ok
        /\ (Len(hist[k]) >= capacity + 1 /\ Burst(k, capacity + 1))
              => ~hist[k][capacity + 1].ok
        /\ (Len(hist[k]) >= capacity + 2 /\ Burst(k, capacity + 1) /\ Refilled(k))
              => hist[k][capacity + 2].ok

C10_Witness ==
    \E k \in Keys :
        /\ capacity = MaxCapacity
        /\ Len(hist[k]) = capacity + 2
        /\ Burst(k, capacity + 1)
        /\ \A i \in 1..capacity : hist[k][i].ok
        /\ ~hist[k][capacity + 1].ok
        /\ Refilled(k)
        /\ hist[k][capacity + 2].ok
        /\ (hist[k][capacity + 2].now - born[k]) * refillPerMinute = MsPerMinute

\* C11: in every reachable state of the rate limiter, for every key,
\* 0 <= tokens <= capacity, also when concurrent calls on the key enter the
\* critical section with clock readings that do not increase.
C11_TokensInRange ==
    \A k \in Keys :
        map[k] # NoState =>
            /\ 0 <= map[k].tokens
            /\ map[k].tokens <= capacity * MsPerMinute

\* the State of key k after the first n calls of its history, computed from
\* that history alone
RECURSIVE Replay(_, _)
Replay(k, n) ==
    IF n = 0 THEN [tokens |-> capacity * MsPerMinute, last |-> born[k]]
    ELSE LET tokens == refill(Replay(k, n - 1), hist[k][n].now)
         IN [tokens |-> IF hasToken(tokens) THEN tokens - MsPerMinute ELSE tokens,
             last |-> hist[k][n].now]

StateIsOwnHistory ==
    \A k \in Keys :
        IF map[k] = NoState THEN hist[k] = <<>>
        ELSE /\ map[k] = Replay(k, Len(hist[k]))
             /\ \A n \in 1..Len(hist[k]) :
                   hist[k][n].ok = hasToken(refill(Replay(k, n - 1), hist[k][n].now))

OnlyOwnCallChanges ==
    \A k \in Keys :
        (map'[k] # map[k] \/ hist'[k] # hist[k]) =>
            \E c \in Callers : al[c].key = k /\ al[c].pc # "idle" /\ al'[c] # al[c]

\* C12: allow(k1) never changes the State (tokens, last) of another key k2,
\* and the results of the calls on k2 are those its own calls alone produce,
\* whatever calls are made on other keys in between.
C12_KeysIndependent == []StateIsOwnHistory /\ [][OnlyOwnCallChanges]_vars

C12_Witness ==
    \E k1, k2 \in Keys :
        /\ k1 # k2
        /\ Len(hist[k1]) = capacity + 1
        /\ ~hist[k1][capacity + 1].ok
        /\ Len(hist[k2]) = 1
        /\ hist[k2][1].ok
        /\ hist[k2][1].now = hist[k1][capacity + 1].now
        /\ map[k1].tokens = 0
        /\ map[k2].tokens = (capacity - 1) * MsPerMinute

\* the first n calls on key k began before any call on k had returned (the
\* key was unseen and the calls ran concurrently) and read the same clock
ConcurrentBurst(k, n) ==
    \A j \in 1..n : hist[k][j].before = 0 /\ hist[k][j].now = born[k]

Granted(k, n) == Cardinality({j \in 1..n : hist[k][j].ok})

\* C13: when n calls for one previously unseen key run concurrently and all
\* read the same clock value, exactly min(n, capacity) of them return true,
\* in every interleaving of their computeIfAbsent and synchronized steps.
C13_ConcurrentCallsSerialized ==
    \A k \in Keys :
        \A n \in 1..Len(hist[k]) :
            ConcurrentBurst(k, n) => Granted(k, n) = min(n, capacity)

C13_Witness ==
    \E k \in Keys :
        /\ Len(hist[k]) = NumCallers
        /\ ConcurrentBurst(k, NumCallers)
        /\ capacity < NumCallers
        /\ Granted(k, NumCallers) = capacity

----------------------------------------------------------------------------
(* Claims about the records a read returns                                 *)

\* the reads that hold the payload they are about to answer with
Answering == {r \in Readers : rd[r].payload # NoPayload}
Submitted(r) == created[rd[r].row.serial]

\* C16 as stated: every payload a read returns has the ct, iv, viewsAllowed
\* and singleView of the accepted create of its record.
C16_RoundTripExact ==
    \A r \in Answering :
        /\ rd[r].payload.ct = Submitted(r).ct
        /\ rd[r].payload.iv = Submitted(r).iv
        /\ rd[r].payload.meta.viewsAllowed = Submitted(r).meta.viewsAllowed
        /\ rd[r].payload.meta.singleView = Submitted(r).meta.singleView

\* C16, amended: every payload a read returns has the ct, iv and
\* viewsAllowed of the accepted create of its record, and its singleView,
\* which reads false when the create gave none.
C16_RoundTrip ==
    \A r \in Answering :
        /\ rd[r].id = Submitted(r).id
        /\ rd[r].payload.ct = Submitted(r).ct
        /\ rd[r].payload.iv = Submitted(r).iv
        /\ rd[r].payload.meta.viewsAllowed = Submitted(r).meta.viewsAllowed
        /\ rd[r].payload.meta.expireTs = Submitted(r).meta.expireTs
        /\ rd[r].payload.meta.singleView =
               IF Submitted(r).meta.singleView = <<>> THEN <<FALSE>>
               ELSE Submitted(r).meta.singleView

C16_Witness ==
    \E r \in Answering :
        /\ Submitted(r).meta.singleView = <<TRUE>>
        /\ rd[r].payload.meta.singleView = <<TRUE>>
        /\ Submitted(r).meta.viewsAllowed = 2
        /\ rd[r].payload.ct = "QUJDRA"
        /\ rd[r].payload.iv = GoodIv

\* max(0, viewsAllowed - viewsUsed) of a row, absent when viewsAllowed is null
Remaining(row) ==
    IF row.viewsAllowed = NULL THEN NULL
    ELSE IF row.viewsAllowed - row.viewsUsed > 0
         THEN row.viewsAllowed - row.viewsUsed ELSE 0

\* a read that fetches a row holds the row as the store has it at that step
FetchedIsStored ==
    \A r \in Readers :
        (rd[r].pc = "idle" /\ rd'[r].pc = "fetched") => rd'[r].row = pastes[rd'[r].id]

\* a read that answers reports the figure of the row it fetched
AnswerReportsFetched ==
    \A r \in Readers :
        (rd[r].pc \in {"delete", "increment"} /\ rd'[r].pc = "idle") =>
            LET s == rd[r].row.serial
            IN /\ Len(views'[s]) = Len(views[s]) + 1
               /\ views'[s][Len(views'[s])].left = Remaining(rd[r].row)

\* C20: the viewsLeft of every successful read is max(0, viewsAllowed -
\* viewsUsed) of the row as it was fetched, before this read's increment or
\* delete is applied, and is absent when viewsAllowed is null.
C20_ViewsLeftOfFetchedRow ==
    /\ [](\A r \in Answering : rd[r].payload.viewsLeft = Remaining(rd[r].row))
    /\ [][FetchedIsStored /\ AnswerReportsFetched]_vars

C20_Witness ==
    \E r \in Answering :
        /\ rd[r].row.viewsAllowed = 2
        /\ rd[r].row.viewsUsed = 2
        /\ rd[r].payload.viewsLeft = 0
        /\ \E s \in Serials :
              /\ Len(views[s]) = 2
              /\ views[s][1].left = 2
              /\ views[s][2].left = 2

\* the record of create s is in the store
Stored(s) ==
    pastes[created[s].id] # NoRow /\ pastes[created[s].id].serial = s

SingleViewGoneAfterRead ==
    \A s \in Serials :
        (Single(s) /\ Len(views[s]) >= 1) =>
            /\ ~Stored(s)
            /\ \A i \in 1..Len(views[s]) : views[s][i].last

NoFetchAfterSingleView ==
    \A r \in Readers :
        (rd[r].pc = "idle" /\ rd'[r].pc = "fetched" /\ Single(rd'[r].row.serial))
            => Len(views[rd'[r].row.serial]) = 0

\* C18: a record created with singleView = true is removed from the store by
\* its first successful read, whatever its viewsAllowed (null, 1 or more),
\* and no read that begins after that read has answered finds it.
C18_SingleViewRemovedByFirstRead ==
    []SingleViewGoneAfterRead /\ [][NoFetchAfterSingleView]_vars

C18_Witness ==
    \E s \in Serials :
        /\ Single(s)
        /\ Limit(s) = 2
        /\ Len(views[s]) = 1
        /\ views[s][1].left = 2
        /\ ~Stored(s)
        /\ resp = Response("GET", 404, "")

\* why a read of id finds no record
NeverCreated(id) == \A s \in Serials : created[s].id # id
Expired(id) == pastes[id] # NoRow /\ pastes[id].expireTs <= now
ViewedOut(id) ==
    \E s \in Serials :
        created[s].id = id /\ ~Stored(s) /\ LastViews(s) # {}
Deleted(id) ==
    \E s \in Serials :
        created[s].id = id /\ ~Stored(s) /\ LastViews(s) = {}
Gone(id) == NeverCreated(id) \/ Expired(id) \/ ViewedOut(id) \/ Deleted(id)

\* a read of a gone record fetches nothing
GoneIsNotFetched ==
    \A r \in Readers :
        (rd[r].pc = "idle" /\ rd'[r].pc = "fetched") => ~Gone(rd'[r].id)

----------------------------------------------------------------------------
(* Claims about creation                                                   *)

\* the step is a create request that has been answered
PostAnswered == resp'.route = "POST" /\ (resp' # resp \/ created' # created)

\* the complete row of the create just accepted
NewRow ==
    LET s == Len(created')
        c == created'[s]
    IN [ ct |-> c.ct, iv |-> c.iv, expireTs |-> c.meta.expireTs,
         viewsAllowed |-> c.meta.viewsAllowed, viewsUsed |-> 0,
         singleView |-> (c.meta.singleView = <<TRUE>>),
         deleteTokenHash |-> <<"sha256", pepper, c.deleteToken>>,
         createdAt |-> now, serial |-> s ]

CreateAllOrNothing ==
    PostAnswered =>
        IF resp'.status = 200
        THEN /\ Len(created') = Len(created) + 1
             /\ \E id \in Ids :
                   /\ id = created'[Len(created')].id
                   /\ pastes[id] = NoRow
                   /\ pastes'[id] = NewRow
                   /\ \A other \in Ids \ {id} : pastes'[other] = pastes[other]
        ELSE /\ resp'.error \in {"size_invalid", "expiry_too_soon", "db_error"}
             /\ pastes' = pastes
             /\ created' = created

\* C15: a create that ends in a rejection or in a storage error leaves the
\* stored records and all their fields unchanged, and a successful create
\* adds exactly one complete record with viewsUsed = 0.
C15_CreateAllOrNothing == [][CreateAllOrNothing]_vars

C15_Witness ==
    /\ resp = Response("POST", 500, "db_error")
    /\ Len(created) = 1
    /\ Stored(1)
    /\ pastes["idA"].viewsUsed = 0
    /\ pastes["idA"].ct = created[1].ct

\* C17: once a record has been destroyed (by its last view, by a single-view
\* read or by a delete with the matching token), no later sequence of
\* create, read and delete requests makes a read of its id return content
\* again: no read is answered from a later record of the same id.
C17_NoResurrection ==
    \A s, t \in Serials :
        (s < t /\ created[s].id = created[t].id) => Len(views[t]) = 0

\* the step answers the create request in progress
IngestAnswered == rq.pc # "idle" /\ rq'.pc = "idle"

\* the code of the first check, in the order rate limit, body, proof-of-work,
\* size, expiry, that the request in progress fails ("" when it fails none)
FirstFailure ==
    IF al[1].result = "false" THEN "rate_limited"
    ELSE IF ~rq.parsed THEN "invalid_json"
    ELSE IF rq.pow = <<>> THEN "pow_required"
    ELSE IF vf[1].result = "false" THEN "pow_invalid"
    ELSE IF base64UrlSize(rq.ct) <= 0 \/ base64UrlSize(rq.ct) > MaxSizeBytes
            \/ base64UrlSize(rq.iv) < IvMinBytes \/ base64UrlSize(rq.iv) > IvMaxBytes
         THEN "size_invalid"
    ELSE IF rq.meta.expireTs <= now + ExpiryMargin THEN "expiry_too_soon"
    ELSE ""

AnswerIsFirstFailure ==
    IngestAnswered =>
        /\ resp'.route = "POST"
        /\ IF FirstFailure = "" THEN resp'.error \in {"", "db_error"}
           ELSE resp'.error = FirstFailure
        /\ resp'.status = IF resp'.error = "" THEN 200
                          ELSE IF resp'.error = "rate_limited" THEN 429
                          ELSE IF resp'.error = "db_error" THEN 500 ELSE 400

LaterComponentsUntouched ==
    IngestAnswered =>
        /\ resp'.error \in {"rate_limited", "invalid_json", "pow_required"}
              => (vf' = rq.vf0 /\ cache' = rq.cache0 /\ pastes' = rq.pastes0)
        /\ resp'.error = "pow_invalid"
              => (cache' = rq.cache0 /\ pastes' = rq.pastes0)
        /\ resp'.error \in {"size_invalid", "expiry_too_soon"}
              => (pastes' = rq.pastes0 /\ cache'[rq.pow[1].challenge] = NoExpiry)
        /\ resp'.error = ""
              => (pastes' # rq.pastes0 /\ cache'[rq.pow[1].challenge] = NoExpiry)

\* C14: a create request is checked in the order rate limit, body,
\* proof-of-work, size, expiry, record creation, and is answered with the
\* code of the first check it fails; the components of later checks are as
\* the request found them: a rate-limited request leaves the challenges and
\* the store untouched, a request with a failed proof-of-work the store.
C14_FirstFailingCheckAnswers ==
    [][AnswerIsFirstFailure /\ LaterComponentsUntouched]_vars

C14_Witness ==
    /\ rq.pc = "idle"
    /\ resp = Response("POST", 429, "rate_limited")
    /\ rq.parsed
    /\ rq.pow = <<[challenge |-> "chA", nonce |-> 3]>>
    /\ rq.cache0["chA"] # NoExpiry
    /\ cache["chA"] = rq.cache0["chA"]
    /\ rq.ct = ""
    /\ Len(created) = 1
    /\ pastes = rq.pastes0

----------------------------------------------------------------------------
(* Claims about the deletion token and the fields of a stored record       *)

\* the store holds, for the record of create s, the peppered digest of the
\* token that create returned, and no column holds the token itself
StoreHoldsDigestOnly ==
    \A s \in Serials :
        Stored(s) =>
            LET row == pastes[created[s].id]
            IN /\ row.deleteTokenHash = <<"sha256", pepper, created[s].deleteToken>>
               /\ row.ct # created[s].deleteToken
               /\ row.iv # created[s].deleteToken

\* the body of a read is ct, iv, meta and viewsLeft, none of them the token
PayloadHasNoToken ==
    \A r \in Answering :
        /\ DOMAIN rd[r].payload = {"ct", "iv", "meta", "viewsLeft"}
        /\ DOMAIN rd[r].payload.meta = {"expireTs", "viewsAllowed", "singleView"}
        /\ rd[r].payload.ct # Submitted(r).deleteToken
        /\ rd[r].payload.iv # Submitted(r).deleteToken

\* the body of any other answer is an error code or empty
ErrorHasNoToken == resp.error \notin DeleteTokens

\* the token of a create is in the one answer that create gave
TokenAnsweredOnce ==
    /\ Len(created') >= Len(created)
    /\ \A s \in 1..Len(created) : created'[s] = created[s]
    /\ Len(created') <= Len(created) + 1

\* C21: the raw deletion token of a record is in exactly one response, that
\* of the create that generated it; the store holds only its peppered
\* digest, and no read or delete response contains the token or the digest.
C21_TokenReturnedOnceDigestStored ==
    /\ [](StoreHoldsDigestOnly /\ PayloadHasNoToken /\ ErrorHasNoToken)
    /\ [][TokenAnsweredOnce]_vars

C21_Witness ==
    /\ resp = Response("DELETE", 403, "invalid_token")
    /\ \E r \in Answering :
          /\ Stored(rd[r].row.serial)
          /\ Submitted(r).deleteToken = "tokB"

\* a stored row stays, goes, or has its viewsUsed grow by one
RowChangesByViewOnly ==
    \A id \in Ids :
        pastes[id] # NoRow =>
            \/ pastes'[id] = pastes[id]
            \/ pastes'[id] = NoRow
            \/ /\ pastes'[id] = [pastes[id] EXCEPT !.viewsUsed = @ + 1]
               /\ \E r \in Readers :
                     rd[r].pc = "increment" /\ rd[r].id = id /\ rd'[r].pc = "idle"

RowStartsUnviewed ==
    \A id \in Ids :
        (pastes[id] = NoRow /\ pastes'[id] # NoRow) => pastes'[id].viewsUsed = 0

\* C22: a stored record is created with viewsUsed = 0 and afterwards changes
\* only by viewsUsed growing by one for a recorded view or by its removal:
\* every other column is left as created, and viewsUsed never decreases.
C22_OnlyViewsUsedChanges == [][RowChangesByViewOnly /\ RowStartsUnviewed]_vars

C22_Witness ==
    \E s \in Serials :
        /\ Stored(s)
        /\ pastes[created[s].id].viewsUsed = 2
        /\ pastes[created[s].id].ct = created[s].ct
        /\ pastes[created[s].id].expireTs = created[s].meta.expireTs
        /\ pastes[created[s].id].expireTs <= now

\* C29 as stated: a delete request is answered 204 when the token is valid
\* and 401 when the token is invalid or missing.
C29_DeleteAnswers204Or401 ==
    resp.route = "DELETE" => resp.status \in {204, 401}

\* C28 as stated: a read of a paste that is stored but has expired is
\* answered 410 (here: every id a read may name is stored and expired).
C28_ExpiredAnswers410 ==
    [][(resp' # resp /\ resp'.route = "GET" /\ \A id \in Ids : Expired(id))
          => resp'.status = 410]_vars

\* the create is answered while a record of its id is stored
CreateOnStoredId == PostAnswered /\ pastes["idA"] # NoRow

\* C27: a create whose id is already stored fails with a storage error,
\* answered as a server error and never as a success, and the stored record
\* keeps all its columns, its deleteTokenHash and viewsUsed among them.
C27_DuplicateIdIsStorageError ==
    [][CreateOnStoredId =>
          /\ resp'.status # 200
          /\ resp' \in { Response("POST", 500, "db_error"),
                         Response("POST", 400, "size_invalid"),
                         Response("POST", 400, "expiry_too_soon") }
          /\ pastes' = pastes
          /\ created' = created]_vars

C27_Witness ==
    /\ resp = Response("POST", 500, "db_error")
    /\ Len(created) = 1
    /\ Stored(1)
    /\ pastes["idA"].viewsUsed = 2
    /\ pastes["idA"].deleteTokenHash = <<"sha256", pepper, created[1].deleteToken>>

----------------------------------------------------------------------------
(* Claims about the life of a challenge                                    *)

\* a verify call returns false at this step
ReturnsFalse(t) == vf[t].pc # "idle" /\ vf'[t].pc = "idle" /\ vf'[t].result = "false"

\* C23: every issued challenge leaves the live set: it is removed by its
\* first successful verification or else once it has expired, so that no
\* challenge stays in the cache forever after its expiry has passed.
C23_ExpiredChallengeLeaves ==
    \A ch \in Challenges :
        (cache[ch] # NoExpiry /\ now > cache[ch]) ~> (cache[ch] = NoExpiry)

\* C24 as stated: a verify made at now >= expiresAt of its challenge, the
\* instant now = expiresAt included, is not judged solved, whatever its nonce.
C24_VerifyFailsFromExpiry ==
    [][\A t \in Verifiers :
          (vf[t].pc = "looked" /\ vf'[t] # vf[t] /\ now >= vf[t].exp)
              => ~(vf'[t].pc = "checked" /\ vf'[t].ok)]_vars

FailedVerifyKeepsCache ==
    \A t \in Verifiers : ReturnsFalse(t) => cache' = cache

\* C25: a verify that returns false leaves the live challenges as they
\* were: after failed verifies of a live challenge, a verify of the same
\* challenge is looked up live again and, with a nonce that meets the
\* difficulty and before expiry, returns true.
C25_FailedVerifyKeepsChallenge ==
    /\ [][FailedVerifyKeepsCache]_vars
    /\ [][\A t \in Verifiers :
             (vf[t].pc = "checked" /\ vf'[t].pc = "idle"
                /\ vf[t].challenge \in failed /\ vf[t].ok)
                 => vf'[t].result = "true"]_vars
    /\ [](\A ch \in failed : solved[ch] = 0 => cache[ch] # NoExpiry)

C25_Witness ==
    \E ch \in failed :
        /\ solved[ch] = 1
        /\ cache[ch] = NoExpiry
        /\ \E t \in Verifiers : vf[t].result = "true"

\* a create without a solution that passes the other checks is accepted
NoSolutionIsNoFailure ==
    (IngestAnswered /\ rq.pow = <<>> /\ al[1].result = "true" /\ rq.parsed
        /\ ~sizeInvalid(rq.ct, rq.iv) /\ ~expiryTooSoon(rq.meta, now))
        => resp'.error \in {"", "db_error"}

\* C26: with proof-of-work switched off, GET /pow answers 204, which the
\* client's fetchPow reads as null, no challenge is issued, and no create
\* is rejected with pow_required or pow_invalid, with or without a solution.
C26_DisabledPowIsNoGate ==
    /\ [](resp.route = "POW" => (resp.status = 204 /\ fetchPow(resp) = "null"))
    /\ [](resp.error \notin {"pow_required", "pow_invalid"})
    /\ [][cache' = cache /\ vf' = vf /\ NoSolutionIsNoFailure]_vars

C26_Witness ==
    /\ resp = Response("POST", 200, "")
    /\ rq.pc = "idle"
    /\ rq.pow = <<>>
    /\ Len(created) = 1
    /\ Stored(1)

\* the nonce solves the challenge at the difficulty
Solves(challenge, nonce, d) ==
    leadingZeroBits(digest(powInput(challenge, nonce))) >= d

Solvable(challenge, d) ==
    \E n \in 0..MaxClientNonce : Solves(challenge, n, d)

\* the digests made so far are those of the nonces 0, 1, 2, ..., one each
DigestsInOrder ==
    /\ pw.pc \in {"step", "timer"} => pw.digests = pw.nonce
    /\ pw.pc = "then" =>
          /\ pw.digests = pw.nonce + 1
          /\ pw.buf = digest(powInput(pw.challenge, pw.nonce))
    /\ pw.pc = "resolved" => pw.digests = pw.result + 1

ResolvedWithSmallest ==
    pw.pc = "resolved" =>
        /\ pw.result >= 0
        /\ Solves(pw.challenge, pw.result, pw.target)
        /\ \A n \in 0..(pw.result - 1) : ~Solves(pw.challenge, n, pw.target)

\* C30: doPow digests the nonces 0, 1, 2, ... in order, one digest each,
\* resolves with the smallest nonce whose digest has at least difficulty
\* leading zero bits, and resolves whenever there is such a nonce, also
\* when it lies beyond the setTimeout taken at the YieldEvery-th nonce.
C30_DoPowFindsSmallestNonce ==
    /\ [](DigestsInOrder /\ ResolvedWithSmallest)
    /\ [][pw'.nonce # pw.nonce => (pw'.nonce = 0 \/ pw'.nonce = pw.nonce + 1)]_vars
    /\ \A challenge \in ClientChallenges, d \in ClientDifficulties :
          (pw.pc = "step" /\ pw.challenge = challenge /\ pw.target = d
              /\ Solvable(challenge, d))
            ~> (pw.pc = "resolved" /\ pw.challenge = challenge /\ pw.target = d)

C30_Witness ==
    /\ pw.pc = "resolved"
    /\ pw.challenge = "chC"
    /\ pw.target = 16
    /\ pw.result = SparseSolution
    /\ pw.result > YieldEvery

\* C31: ub64u(b64u(bytes)) = bytes for every byte sequence, of every length
\* modulo 3, and b64u puts no '+', '/' or '=' in its text.
C31_Base64UrlRoundTrip ==
    /\ codec.pc = "decoded" => codec.out = codec.bytes
    /\ \A i \in 1..Len(codec.text) : codec.text[i] \notin {"+", "/", "="}

C31_Witness ==
    /\ codec.pc = "decoded"
    /\ Len(codec.bytes) % 3 = 1
    /\ \E i \in 1..Len(codec.text) : codec.text[i] = "-"
    /\ \E i \in 1..Len(codec.text) : codec.text[i] = "_"
    /\ codec.out = codec.bytes

\* the branch a read takes after its fetch is the one that its fetched row
\* calls for, and choosing it changes nothing but the read itself
DecisionOfFetchedRow ==
    \A r \in Readers :
        (rd[r].pc = "fetched" /\ rd'[r] # rd[r]) =>
            /\ rd'[r].pc = "delete" <=>
                  (\/ rd[r].row.singleView
                   \/ /\ rd[r].row.viewsAllowed # NULL
                      /\ rd[r].row.viewsUsed + 1 >= rd[r].row.viewsAllowed)
            /\ rd'[r].pc \in {"delete", "increment"}
            /\ rd'[r].row = rd[r].row
            /\ UNCHANGED <<pastes, now, resp, created, views>>

\* C32: shouldDeleteAfterView is true iff the fetched row is singleView, or
\* has a view limit and viewsUsed + 1 >= the limit; it is a function of the
\* fetched row alone and changes no state.
C32_DestructionDecidedByFetchedRow == [][DecisionOfFetchedRow]_vars

C32_Witness ==
    \E r \in Readers :
        /\ rd[r].pc = "delete"
        /\ ~rd[r].row.singleView
        /\ rd[r].row.viewsAllowed = 2
        /\ rd[r].row.viewsUsed = 1
        /\ pastes[rd[r].id] = NoRow

\* the synchronized block of a call refills, then takes one token iff the
\* refilled tokens are at least one
AllowComputes ==
    \A c \in Callers :
        (al[c].pc = "sync" /\ al'[c] # al[c]) =>
            LET st == map[al[c].key]
                refilled == min(capacity * MsPerMinute,
                                st.tokens + (al[c].nowMs - st.last) * refillPerMinute)
            IN /\ al'[c].result = "true" <=> refilled >= MsPerMinute
               /\ al'[c].result \in {"true", "false"}
               /\ map'[al[c].key].tokens =
                     IF refilled >= MsPerMinute THEN refilled - MsPerMinute
                     ELSE refilled
               /\ map'[al[c].key].last = al[c].nowMs

\* a call that returns false leaves the key no fewer tokens than it found
DeniedKeepsTokens ==
    \A c \in Callers :
        (al[c].pc = "sync" /\ al'[c] # al[c] /\ al'[c].result = "false") =>
            map'[al[c].key].tokens >= map[al[c].key].tokens

\* the State of a key seen for the first time
FirstSeenStartsFull ==
    \A c \in Callers :
        (al[c].pc = "get" /\ al'[c] # al[c] /\ map[al[c].key] = NoState) =>
            map'[al[c].key] = [tokens |-> capacity * MsPerMinute,
                               last |-> al[c].nowMs]

\* C33 as stated: allow(key) sets tokens to min(capacity, tokens + elapsed
\* minutes * refillPerMinute), returns true and takes exactly one token iff
\* the refilled tokens are >= 1, and takes nothing when it returns false, so
\* that a denied call never lowers the tokens of the key; a key seen for the
\* first time starts with tokens = capacity and last = now.
C33_AllowRefillsThenTakesOne ==
    [][AllowComputes /\ DeniedKeepsTokens /\ FirstSeenStartsFull]_vars

\* the decoded size of a base64url text: 3 * ceil(length / 4)
DecodedSize(text) == 3 * ((Len(text) + 3) \div 4)

SizeOutOfBounds(ct, iv) ==
    \/ DecodedSize(ct) <= 0
    \/ DecodedSize(ct) > MaxSizeBytes
    \/ DecodedSize(iv) < IvMinBytes
    \/ DecodedSize(iv) > IvMaxBytes

\* C34: a create request that comes to the size check is answered
\* size_invalid, and stores nothing, iff the decoded size of its ciphertext
\* is <= 0 or above the maximum or the decoded size of its IV is outside
\* 12..64, the decoded size of a text s being 3 * ceil(length(s) / 4); the
\* IV of genIV, encoded by b64u, passes the check.
C34_SizeInvalidIffOutOfBounds ==
    /\ [](rq.parsed => (resp.error = "size_invalid" <=> SizeOutOfBounds(rq.ct, rq.iv)))
    /\ [](codec.pc = "encoded" => ~SizeOutOfBounds(Text(1), codec.text))
    /\ [][resp'.error = "size_invalid" => UNCHANGED <<pastes, created>>]_vars

C34_Witness ==
    /\ codec.pc = "encoded"
    /\ Len(codec.bytes) = IvBytes
    /\ Len(created) = 1
    /\ created[1].iv = codec.text
    /\ rq.ct = Text(9)
    /\ resp = Response("POST", 400, "size_invalid")
    /\ pastes[created[1].id] # NoRow

\* a request that comes to the expiry check with expireTs <= now + 10 is
\* answered expiry_too_soon and stores nothing
TooSoonIsRejected ==
    (rq.pc = "idle" /\ rq' # rq /\ rq'.parsed /\ ~sizeInvalid(rq'.ct, rq'.iv)
        /\ rq'.meta.expireTs <= now + ExpiryMargin)
      => /\ resp' = Response("POST", 400, "expiry_too_soon")
         /\ rq'.pc = "idle"
         /\ UNCHANGED <<pastes, created>>

NoRowCreatedExpired ==
    \A id \in Ids : pastes[id] # NoRow => pastes[id].expireTs > pastes[id].createdAt

\* C35 as stated: a create request whose expireTs is <= now + 10 is answered
\* expiry_too_soon and stores nothing, and so every row of the store has
\* expireTs > createdAt: no row is created already expired.
C35_NoRecordCreatedExpired == [][TooSoonIsRejected]_vars /\ []NoRowCreatedExpired

\* a request answered size_invalid, expiry_too_soon or db_error carried a
\* solution of a challenge that was live when it began and is live no more
RejectedAfterVerifyHasConsumed ==
    (IngestAnswered /\ resp'.error \in {"size_invalid", "expiry_too_soon", "db_error"})
      => /\ rq.pow # <<>>
         /\ rq.cache0[rq.pow[1].challenge] # NoExpiry
         /\ solved[rq.pow[1].challenge] = 1
         /\ cache'[rq.pow[1].challenge] = NoExpiry
         /\ pastes' = rq.pastes0

\* a request that comes to the proof-of-work check with the solution of a
\* challenge that is not live is answered pow_invalid
SolutionOfConsumedIsInvalid ==
    (IngestAnswered /\ al[1].result = "true" /\ rq.parsed /\ rq.pow # <<>>
        /\ rq.cache0[rq.pow[1].challenge] = NoExpiry)
      => resp' = Response("POST", 400, "pow_invalid")

ConsumedStaysConsumed ==
    \A ch \in Challenges : solved[ch] >= 1 => cache[ch] = NoExpiry

\* C36: proof-of-work is verified before the size and expiry checks and
\* before the create, so a request with a valid solution that is answered
\* size_invalid, expiry_too_soon or db_error has consumed its challenge, and
\* a later request with the same solution that comes to the proof-of-work
\* check is answered pow_invalid.
C36_RejectedCreateConsumesChallenge ==
    /\ []ConsumedStaysConsumed
    /\ [][RejectedAfterVerifyHasConsumed /\ SolutionOfConsumedIsInvalid]_vars

C36_Witness ==
    /\ rq.pc = "idle"
    /\ resp = Response("POST", 400, "pow_invalid")
    /\ rq.pow = <<[challenge |-> "chA", nonce |-> 3]>>
    /\ rq.ct = ""
    /\ rq.cache0["chA"] = NoExpiry
    /\ solved["chA"] = 1
    /\ Len(created) = 0

\* a delete request answered 204 has removed the record, for good
DeleteRemovesForGood ==
    /\ (resp' = Response("DELETE", 204, "") /\ pastes' # pastes) =>
          \E id \in Ids : pastes[id] # NoRow /\ Deleted(id)'
    /\ \A id \in Ids : Deleted(id) => pastes'[id] = NoRow

\* no read that starts after the delete fetches the record
NoFetchAfterDelete ==
    \A r \in Readers :
        (rd[r].pc = "idle" /\ rd'[r].pc = "fetched") => ~Deleted(rd'[r].id)

\* a read that had fetched the record answers 200 with what it fetched, and
\* its delete or incrementViews changes no record
FetchedBeforeDeleteAnswers ==
    \A r \in Readers :
        (rd[r].pc \in {"delete", "increment"} /\ rd'[r] # rd[r]
            /\ Deleted(rd[r].id))
          => /\ resp' = Response("GET", 200, "")
             /\ pastes' = pastes
             /\ Len(views'[rd[r].row.serial]) = Len(views[rd[r].row.serial]) + 1

\* C37: after a delete request with the matching token has answered 204,
\* every read that starts answers not-found; a read that had fetched the
\* record before still answers with the content, and its own delete or
\* incrementViews step changes no record.
C37_ReadsAfterDelete ==
    /\ [](resp.route = "GET" =>
            resp \in {Response("GET", 200, ""), Response("GET", 404, "")})
    /\ [][DeleteRemovesForGood /\ NoFetchAfterDelete /\ FetchedBeforeDeleteAnswers]_vars

C37_Witness ==
    /\ Deleted("idA")
    /\ resp = Response("GET", 200, "")
    /\ Len(views[1]) = 2
    /\ \A r \in Readers : rd[r].pc = "idle"

\* the verify in progress is of what doPow resolved with for the challenge,
\* at the difficulty of the server
VerifiesSolution ==
    /\ pw.pc = "resolved"
    /\ pw.target = difficulty
    /\ vf[1].challenge = pw.challenge
    /\ vf[1].nonce = pw.result

\* the verify found the challenge live, is not past its expiry, and judges
\* the solution of the client solved; what it judged solved it returns true
SolutionIsAccepted ==
    /\ (vf[1].pc = "looked" /\ vf'[1] # vf[1] /\ VerifiesSolution
            /\ now < vf[1].exp)
         => (vf'[1].pc = "checked" /\ vf'[1].ok)
    /\ (vf[1].pc = "checked" /\ vf'[1] # vf[1] /\ vf[1].ok)
         => (vf'[1].result = "true" /\ cache'[vf[1].challenge] = NoExpiry)

\* C38: the nonce doPow(challenge, difficulty) resolves with, for a challenge
\* the server has issued, is accepted by verify(challenge, nonce) when the
\* challenge is live and not expired: client and server hash the same text
\* challenge:nonce and count the leading zero bits alike.
C38_ClientSolutionVerifies ==
    /\ [][SolutionIsAccepted]_vars
    /\ [](pw.pc = "then" =>
            /\ encode(pw.challenge, pw.nonce) = powInput(pw.challenge, pw.nonce)
            /\ bits(pw.buf) = leadingZeroBits(pw.buf))

C38_Witness ==
    /\ pw.pc = "resolved"
    /\ pw.challenge = "chA"
    /\ pw.result = 3
    /\ difficulty = MaxDifficulty
    /\ vf[1] = IdleVerify("true")
    /\ cache["chA"] = NoExpiry
    /\ solved["chA"] = 1

\* the step leaves the row of every id but id as it is
OthersUntouched(id) == \A o \in Ids \ {id} : pastes'[o] = pastes[o]

\* the id a read in progress works on
ReadId(r) == IF rd[r].pc = "idle" THEN rd'[r].id ELSE rd[r].id

FrameOfStoreOperations ==
    /\ \A r \in Readers : rd'[r] # rd[r] => OthersUntouched(ReadId(r))
    /\ \A id \in Ids, t \in QueryTokens :
          DeletePastes(id, t) => OthersUntouched(id)
    /\ created' # created => OthersUntouched(created'[Len(created')].id)
    /\ (resp' = Response("POST", 500, "db_error") /\ resp' # resp) => pastes' = pastes
    /\ \A i, o \in Ids :
          (pastes'[i] # pastes[i] /\ pastes'[o] # pastes[o]) => i = o

\* C39: every store operation on one id (getIfAvailable, incrementViews,
\* delete, deleteIfTokenMatches, a create that succeeds or fails) leaves the
\* record of every other id unchanged and present.
C39_OtherRecordsUntouched == [][FrameOfStoreOperations]_vars

C39_Witness ==
    /\ Len(created) = 2
    /\ created[1].id = "idB"
    /\ created[2].id = "idA"
    /\ Stored(1)
    /\ pastes["idB"].viewsUsed = 0
    /\ Len(views[2]) = 2
    /\ pastes["idA"] = NoRow
    /\ resp = Response("POST", 500, "db_error")

\* a row leaves the store by the delete step of a read or by a delete
\* request answered 204, and by nothing else: not by the clock
RemovedByReadOrDelete ==
    \A id \in Ids :
        (pastes[id] # NoRow /\ pastes'[id] = NoRow) =>
            \/ \E r \in Readers :
                  rd[r].pc = "delete" /\ rd[r].id = id /\ rd'[r] = Idle
            \/ resp' = Response("DELETE", 204, "")

\* a delete with the token of an expired record removes it
DeleteOfExpiredSucceeds ==
    \A id \in Ids, t \in QueryTokens :
        (DeletePastes(id, t) /\ Expired(id) /\ TokenOfRecord(id) = t) =>
            /\ resp' = Response("DELETE", 204, "")
            /\ pastes' = [pastes EXCEPT ![id] = NoRow]

\* a delete of a record destroyed by its last view is refused
DeleteOfViewedOutRefused ==
    \A id \in Ids, t \in QueryTokens :
        (DeletePastes(id, t) /\ ViewedOut(id)) =>
            /\ resp' = Response("DELETE", 403, "invalid_token")
            /\ pastes' = pastes

\* C40: only a destroying read or a delete removes a record, so an expired
\* record stays in the store; a delete with the matching token removes an
\* expired record and answers success, and a delete of a record destroyed
\* by its last view is refused as forbidden, every time.
C40_ExpiredStaysUntilDeleted ==
    [][RemovedByReadOrDelete /\ DeleteOfExpiredSucceeds /\ DeleteOfViewedOutRefused]_vars

\* C40 witness: the second record was created when the first had expired,
\* and the last request, after that create, was the delete of the first.
C40_Witness ==
    /\ Len(created) = 2
    /\ Stored(2)
    /\ pastes[created[2].id].createdAt >= created[1].meta.expireTs
    /\ Deleted(created[1].id)
    /\ resp = Response("DELETE", 204, "")

====
